---- MODULE Spec2Model ----
(***************************************************************************)
(* LinkForty core.  The parts of the program are modelled each with its    *)
(* own specification over the shared variables:                            *)
(*   SpecDelivery / SpecFanout : the webhook dispatcher (lib/webhook)      *)
(*   SpecLinks                 : link store, link cache and the resolvers  *)
(*   SpecCrud                  : the webhook CRUD routes                   *)
(*   SpecReuse / SpecTargeting / SpecDestination : the resolvers, their    *)
(*                               targeting, destination and click recorder *)
(*   SpecAttribution           : the attribution engine (lib/fingerprint)  *)
(*   SpecInstall               : the SDK routes for installs, attribution  *)
(*                               lookups and in-app events                 *)
(*   SpecScore / SpecDevice    : calculateConfidenceScore and detectDevice *)
(*   SpecCreate                : concurrent creation of links              *)
(*   SpecCache                 : the life of a link cache entry            *)
(*   SpecBus                   : the click event bus and its listeners     *)
(*   SpecRecorder / SpecOwners : the steps of the background click         *)
(*                               recorder and the webhooks it reaches      *)
(*   SpecRecorderLive          : the recorder under a fair event loop      *)
(***************************************************************************)
EXTENDS FiniteSets, Integers, Sequences, TLC

VARIABLES
  webhooks,   \* webhooks table: webhook id -> row
  delivery,   \* webhook id -> state of the deliverWebhook call for that webhook
  caller,     \* position of the caller of triggerWebhooks / of the test route
  testResp,   \* response of POST /api/webhooks/:id/test
  links,      \* links table: link id -> row, or NoLink
  nextLinkId, \* the id the next inserted link row gets
  cache,      \* redis: cache key -> entry, or NoEntry
  now,        \* wall clock, in seconds
  recorder,   \* the click-recorder tasks scheduled with setImmediate
  clicks,     \* click_events table
  fingerprints, \* device_fingerprints table
  published,  \* the click events published on the event bus
  triggered,  \* the calls of triggerWebhooks made by background tasks
  installs,   \* install_events table
  appEvents,  \* in_app_events table
  subscribers, \* the listeners of the click event bus, in registration order
  received,   \* <<subscriber, event id>>: the click events handed to a client
  pending,    \* the link inserts whose code has been chosen but not yet written
  edits,      \* number of link updates made so far
  resp,       \* the response produced by the last link or resolver step, NoResp if none
  whResp      \* the response of the last webhook CRUD request

dvars == <<webhooks, delivery, caller, testResp>>

\* what the click recorder and the attribution engine write
rvars == <<fingerprints, published, triggered, installs,
           appEvents, subscribers, received, pending>>

\* in-app events, the click event bus and the link inserts in flight
bvars == <<appEvents, subscribers, received, pending>>

lvars == <<links, nextLinkId, cache, now, recorder, clicks, edits, resp,
           fingerprints, published, triggered, installs,
           appEvents, subscribers, received, pending>>

cvars == <<whResp>>

vars == <<webhooks, delivery, caller, testResp,
          links, nextLinkId, cache, now, recorder, clicks, edits, resp,
          fingerprints, published, triggered, installs,
          appEvents, subscribers, received, pending, whResp>>

(***************************************************************************)
(* Bounds of the model                                                     *)
(***************************************************************************)
TickMs == 1000
MaxElapsed == 3000

(***************************************************************************)
(* Program constants                                                       *)
(***************************************************************************)
BackoffBaseMs == 1000
BackoffCapMs == 30000
BodyLimit == 1000
DefaultRetryCount == 3

WebhookIds == {"w1", "w2"}
WebhookEvents == {"click_event", "install_event", "conversion_event"}

Min(a, b) == IF a < b THEN a ELSE b

\* Math.pow(2, n)
RECURSIVE Pow2(_)
Pow2(n) == IF n <= 0 THEN 1 ELSE 2 * Pow2(n - 1)

(***************************************************************************)
(* Values                                                                  *)
(***************************************************************************)
\* errorMessage of a WebhookDeliveryResult; NoError is an undefined errorMessage
NoError == [kind |-> "none", n |-> 0]
HttpError(status) == [kind |-> "http", n |-> status]
TimeoutError(ms) == [kind |-> "timeout", n |-> ms]
TransportError == [kind |-> "transport", n |-> 0]
ExhaustedError(n) == [kind |-> "failed-after-attempts", n |-> n]

\* undefined responseStatus / responseBody
NoStatus == 0
NoBody == -1

NoResult ==
  [success |-> FALSE, responseStatus |-> NoStatus, responseBody |-> NoBody,
   errorMessage |-> NoError, attemptNumber |-> 0]

NoHeaders == [h \in {} |-> <<>>]

NoWhResp == [op |-> "none", status |-> 0, rows |-> {}]

\* values of generateWebhookSecret()
Secrets == {"k1", "k2"}

NoPayload == [event |-> "none", event_id |-> "none", timestamp |-> "none", data |-> "none"]

\* response statuses a receiver answers with, and the lengths of its bodies
Statuses == {200, 299, 300, 503}
BodyLengths == {0, 1001}

\* Response.ok
ResponseOk(status) == status >= 200 /\ status <= 299

(***************************************************************************)
(* Signing and request construction (attemptWebhookDelivery)               *)
(***************************************************************************)
\* JSON.stringify(payload): the fields in declaration order
JSONstringify(payload) ==
  <<payload.event, payload.event_id, payload.timestamp, payload.data>>

\* hex HMAC-SHA256 of payload keyed with secret, kept symbolic
generateWebhookSignature(payload, secret) == <<"hmac-sha256", secret>> \o payload

CoreHeaderNames ==
  {"Content-Type", "X-LinkForty-Signature", "X-LinkForty-Event",
   "X-LinkForty-Event-ID", "User-Agent"}

CoreHeaders(webhook, payload) ==
  LET payloadString == JSONstringify(payload)
      signature == generateWebhookSignature(payloadString, webhook.secret)
  IN [h \in CoreHeaderNames |->
        CASE h = "Content-Type" -> <<"application/json">>
          [] h = "X-LinkForty-Signature" -> <<"sha256=">> \o signature
          [] h = "X-LinkForty-Event" -> <<payload.event>>
          [] h = "X-LinkForty-Event-ID" -> <<payload.event_id>>
          [] h = "User-Agent" -> <<"LinkForty-Webhook/1.0">>]

\* { ...core, ...webhook.headers }: a later key replaces an earlier one
SpreadHeaders(core, extra) ==
  [h \in (DOMAIN core) \cup (DOMAIN extra) |->
     IF h \in DOMAIN extra THEN extra[h] ELSE core[h]]

RequestHeaders(webhook, payload) ==
  SpreadHeaders(CoreHeaders(webhook, payload), webhook.headers)

(***************************************************************************)
(* deliverWebhook                                                          *)
(***************************************************************************)
\* const maxRetries = webhook.retry_count || 3
MaxRetries(webhook) ==
  IF webhook.retry_count = 0 THEN DefaultRetryCount ELSE webhook.retry_count

\* a retry loop that runs one pass too many
RetryOffByOne(attempt, maxRetries) == attempt <= maxRetries

\* if (attempt < maxRetries): the loop sleeps and makes another pass
HasNextAttempt(attempt, maxRetries) == attempt < maxRetries

\* a backoff without its cap
BackoffUncapped(attempt) == BackoffBaseMs * Pow2(attempt - 1)

\* Math.min(1000 * Math.pow(2, attempt - 1), 30000)
BackoffDelay(attempt) == Min(BackoffBaseMs * Pow2(attempt - 1), BackoffCapMs)

IdleDelivery ==
  [pc |-> "idle", mode |-> "none", log |-> FALSE, payload |-> NoPayload,
   attempt |-> 0, posts |-> 0, elapsed |-> 0, timer |-> FALSE,
   headers |-> NoHeaders, body |-> <<>>, status |-> NoStatus,
   last |-> NoResult, okAt |-> 0, logged |-> 0, waits |-> <<>>,
   ret |-> NoResult]

\* an attempt that stamps the payload anew before it serialises and signs it
StartAttemptRestamped(d, webhook, n) ==
  LET payload == [d.payload EXCEPT !.timestamp = IF n = 1 THEN @ ELSE "t1"]
  IN [d EXCEPT !.pc = "fetch", !.attempt = n, !.posts = @ + 1,
               !.elapsed = 0, !.timer = TRUE, !.status = NoStatus,
               !.payload = payload,
               !.headers = RequestHeaders(webhook, payload),
               !.body = JSONstringify(payload)]

\* the synchronous prefix of attemptWebhookDelivery, up to `await fetch(...)`
StartAttempt(d, webhook, n) ==
  [d EXCEPT !.pc = "fetch", !.attempt = n, !.posts = @ + 1,
            !.elapsed = 0, !.timer = TRUE, !.status = NoStatus,
            !.headers = RequestHeaders(webhook, d.payload),
            !.body = JSONstringify(d.payload)]

\* the synchronous prefix of deliverWebhook
StartDelivery(webhook, payload, mode, log) ==
  StartAttempt([IdleDelivery EXCEPT !.mode = mode, !.log = log,
                                    !.payload = payload], webhook, 1)

\* the body of the loop of deliverWebhook after attemptWebhookDelivery returned
AfterAttempt(d, webhook, result) ==
  LET maxRetries == MaxRetries(webhook)
      d1 == [d EXCEPT !.last = result, !.timer = FALSE,
                      !.logged = IF d.log THEN @ + 1 ELSE @,
                      !.okAt = IF @ = 0 /\ result.responseStatus \in 200..299
                               THEN d.attempt ELSE @]
  IN IF result.success
       THEN [d1 EXCEPT !.pc = "done", !.ret = result]
       ELSE IF HasNextAttempt(d.attempt, maxRetries)
         THEN [d1 EXCEPT !.pc = "sleep",
                         !.waits = Append(@, BackoffDelay(d.attempt))]
         ELSE [d1 EXCEPT !.pc = "done",
                 !.ret = [success |-> FALSE, responseStatus |-> NoStatus,
                          responseBody |-> NoBody,
                          errorMessage |-> ExhaustedError(maxRetries),
                          attemptNumber |-> maxRetries]]

\* fetch resolved with the response head: clearTimeout, then await response.text()
ResponseHead(w, status) ==
  /\ w \in DOMAIN webhooks
  /\ delivery[w].pc = "fetch"
  /\ delivery' = [delivery EXCEPT ![w] =
                    [@ EXCEPT !.pc = "body", !.status = status, !.timer = FALSE]]
  /\ UNCHANGED <<webhooks, caller, testResp>>
  /\ UNCHANGED <<lvars, cvars>>

\* response.text() settled: len is the body's length, -1 a failed read (-> '')
ResponseBody(w, len) ==
  /\ w \in DOMAIN webhooks
  /\ delivery[w].pc = "body"
  /\ LET d == delivery[w]
         ok == ResponseOk(d.status)
         text == IF len < 0 THEN 0 ELSE len
         result == [success |-> ok, responseStatus |-> d.status,
                    responseBody |-> Min(text, BodyLimit),
                    errorMessage |-> IF ok THEN NoError ELSE HttpError(d.status),
                    attemptNumber |-> d.attempt]
     IN delivery' = [delivery EXCEPT ![w] = AfterAttempt(d, webhooks[w], result)]
  /\ UNCHANGED <<webhooks, caller, testResp>>
  /\ UNCHANGED <<lvars, cvars>>

\* fetch rejected with a transport error
FetchError(w) ==
  /\ w \in DOMAIN webhooks
  /\ delivery[w].pc = "fetch"
  /\ LET d == delivery[w]
         result == [success |-> FALSE, responseStatus |-> NoStatus,
                    responseBody |-> NoBody, errorMessage |-> TransportError,
                    attemptNumber |-> d.attempt]
     IN delivery' = [delivery EXCEPT ![w] = AfterAttempt(d, webhooks[w], result)]
  /\ UNCHANGED <<webhooks, caller, testResp>>
  /\ UNCHANGED <<lvars, cvars>>

\* the setTimeout callback: controller.abort(), fetch rejects with AbortError
TimeoutFires(w) ==
  /\ w \in DOMAIN webhooks
  /\ delivery[w].pc = "fetch"
  /\ delivery[w].timer
  /\ delivery[w].elapsed >= webhooks[w].timeout_ms
  /\ LET d == delivery[w]
         result == [success |-> FALSE, responseStatus |-> NoStatus,
                    responseBody |-> NoBody,
                    errorMessage |-> TimeoutError(webhooks[w].timeout_ms),
                    attemptNumber |-> d.attempt]
     IN delivery' = [delivery EXCEPT ![w] = AfterAttempt(d, webhooks[w], result)]
  /\ UNCHANGED <<webhooks, caller, testResp>>
  /\ UNCHANGED <<lvars, cvars>>

\* sleep(delayMs) resolved: the next pass of the loop starts its attempt
Wake(w) ==
  /\ w \in DOMAIN webhooks
  /\ delivery[w].pc = "sleep"
  /\ delivery' = [delivery EXCEPT ![w] =
                    StartAttempt(@, webhooks[w], delivery[w].attempt + 1)]
  /\ UNCHANGED <<webhooks, caller, testResp>>
  /\ UNCHANGED <<lvars, cvars>>

InFlight(d) == d.pc \in {"fetch", "body"}

\* TickMs of wall-clock time pass for every attempt in flight; an armed timer
\* fires no later than its timeout
Tick ==
  /\ \E w \in DOMAIN webhooks :
       InFlight(delivery[w]) /\ delivery[w].elapsed < MaxElapsed
  /\ \A w \in DOMAIN webhooks :
       (delivery[w].pc = "fetch" /\ delivery[w].timer)
         => delivery[w].elapsed + TickMs <= webhooks[w].timeout_ms
  /\ delivery' = [w \in DOMAIN delivery |->
                    IF InFlight(delivery[w])
                      THEN [delivery[w] EXCEPT
                              !.elapsed = Min(@ + TickMs, MaxElapsed)]
                      ELSE delivery[w]]
  /\ UNCHANGED <<webhooks, caller, testResp>>
  /\ UNCHANGED <<lvars, cvars>>

(***************************************************************************)
(* triggerWebhooks                                                         *)
(***************************************************************************)
\* webhooks.filter(webhook => webhook.is_active && webhook.events.includes(event))
RelevantWebhooks(event) ==
  {w \in DOMAIN webhooks : webhooks[w].is_active /\ event \in webhooks[w].events}

\* deliveries awaited one after another: only the first has started on return
FirstOnly(relevant) ==
  IF relevant = {} THEN {} ELSE {CHOOSE w \in relevant : TRUE}

\* relevantWebhooks.map(async (webhook) => ...): every callback runs up to its
\* first await before map returns
DeliveryPromises(relevant) == relevant

TriggerWebhooks(event, log) ==
  /\ caller = "idle"
  /\ LET payload == [event |-> event, event_id |-> "e1",
                     timestamp |-> "t0", data |-> "d1"]
         started == DeliveryPromises(RelevantWebhooks(event))
     IN delivery' = [w \in DOMAIN delivery |->
                       IF w \in started
                         THEN StartDelivery(webhooks[w], payload, "trigger", log)
                         ELSE delivery[w]]
  /\ caller' = "returned"
  /\ UNCHANGED <<webhooks, testResp>>
  /\ UNCHANGED <<lvars, cvars>>

(***************************************************************************)
(* POST /api/webhooks/:id/test                                             *)
(***************************************************************************)
NoTestResp ==
  [success |-> FALSE, statusCode |-> NoStatus, responseBody |-> NoBody,
   error |-> NoError, webhook |-> "none"]

TestPayload ==
  [event |-> "click_event", event_id |-> "00000000-0000-0000-0000-000000000000",
   timestamp |-> "t0", data |-> "test"]

\* the route up to `await deliverWebhook(webhook, testPayload)`
TestWebhook(w) ==
  /\ caller = "idle"
  /\ w \in DOMAIN webhooks
  /\ delivery' = [delivery EXCEPT ![w] =
                    StartDelivery(webhooks[w], TestPayload, "test", FALSE)]
  /\ caller' = "testing"
  /\ UNCHANGED <<webhooks, testResp>>
  /\ UNCHANGED <<lvars, cvars>>

\* deliverWebhook returned: the route answers
TestReturns(w) ==
  /\ caller = "testing"
  /\ w \in DOMAIN webhooks
  /\ delivery[w].mode = "test"
  /\ delivery[w].pc = "done"
  /\ LET result == delivery[w].ret
     IN testResp' = [success |-> result.success,
                     statusCode |-> result.responseStatus,
                     responseBody |-> result.responseBody,
                     error |-> result.errorMessage,
                     webhook |-> w]
  /\ caller' = "tested"
  /\ UNCHANGED <<webhooks, delivery>>
  /\ UNCHANGED <<lvars, cvars>>

(***************************************************************************)
(* Link store, link cache and resolvers                                    *)
(***************************************************************************)
\* bounds
MaxLinks == 1
MaxClicks == 2
MaxEdits == 2
TickSec == 150
MaxTime == 300

\* redis.setex(cacheKey, 300, linkData)
CacheTTL == 300

\* data.attributionWindowHours || 168
DefaultLinkWindow == 168

Codes == {"c1"}
Users == {"u1", "u2"}
NoUser == "null"
NoTemplate == "null"
NoSlug == "none"
NoExpiry == -1
ExpiryChoices == {NoExpiry, 200}

\* link_templates table (template CRUD is outside the model): id -> slug
TemplateSlug == [t \in {"t1"} |-> "s1"]
Slugs == {"s1"}

\* String.prototype.toUpperCase / toLowerCase on the strings requests and rules use
ToUpperCase(str) ==
  CASE str = "de" -> "DE" [] str = "us" -> "US" [] str = "en" -> "EN"
    [] OTHER -> str

ToLowerCase(str) ==
  CASE str = "DE" -> "de" [] str = "US" -> "us" [] str = "EN" -> "en"
    [] str = "iPhone" -> "iphone" [] str = "iPad" -> "ipad"
    [] str = "Android" -> "android" [] str = "Linux" -> "linux"
    [] str = "Macintosh" -> "macintosh" [] str = "Mozilla" -> "mozilla"
    [] str = "Safari" -> "safari" [] str = "Chrome" -> "chrome"
    [] str = "GSA/" -> "gsa/" [] str = "Twitter" -> "twitter"
    [] str = "Twitterbot" -> "twitterbot" [] str = "Instagram" -> "instagram"
    [] str = "IPHONE" -> "iphone" [] str = "iPod" -> "ipod"
    [] str = "ANDROID" -> "android" [] str = "MOZILLA" -> "mozilla"
    [] str = "LINUX" -> "linux"
    [] OTHER -> str

\* a User-Agent header, as the sequence of the product tokens it is made of
DesktopSafari == <<"Mozilla", "Macintosh", "Safari">>
IPhoneSafari == <<"Mozilla", "iPhone", "Safari">>
IPhoneGmail == <<"Mozilla", "iPhone", "GSA/", "Safari">>
AndroidChrome == <<"Mozilla", "Linux", "Android", "Chrome", "Safari">>
TwitterbotAgent == <<"Twitterbot">>
UserAgents == {DesktopSafari, IPhoneSafari, IPhoneGmail, AndroidChrome, TwitterbotAgent}

\* whether a token contains pattern, letter case ignored
Includes(token, pattern) ==
  \/ ToLowerCase(token) = ToLowerCase(pattern)
  \/ ToLowerCase(token) = "twitterbot" /\ ToLowerCase(pattern) = "twitter"

\* patterns.some(pattern => pattern.test(userAgent)) with /pattern/i
MatchesAny(userAgent, patterns) ==
  \E i \in 1..Len(userAgent), p \in patterns : Includes(userAgent[i], p)

\* a classification that looks for android first
detectDeviceAndroidFirst(userAgent) ==
  IF MatchesAny(userAgent, {"android"}) THEN "android"
  ELSE IF MatchesAny(userAgent, {"iphone", "ipad", "ipod"}) THEN "ios"
  ELSE "web"

detectDevice(userAgent) ==
  IF MatchesAny(userAgent, {"iphone", "ipad", "ipod"}) THEN "ios"
  ELSE IF MatchesAny(userAgent, {"android"}) THEN "android"
  ELSE "web"

isIOSInAppBrowser(userAgent) ==
  MatchesAny(userAgent, {"GSA/", "Gmail/", "FBAN", "FBAV", "Instagram", "Twitter",
                         "LinkedIn", "MicroMessenger", "Outlook", "YahooMobile"})

isSocialScraper(userAgent) ==
  MatchesAny(userAgent, {"facebookexternalhit", "Facebot", "Twitterbot",
                         "LinkedInBot", "Slackbot", "Discordbot", "TelegramBot",
                         "WhatsApp", "PinterestBot", "SkypeUriPreview",
                         "Googlebot", "bingbot", "ia_archiver"})

NoRules == [countries |-> {}, devices |-> {}, languages |-> {}]
TargetingChoices == {NoRules, [countries |-> {"de"}, devices |-> {}, languages |-> {}]}

\* remote addresses, as their dotted groups
HomeIp == <<"203", "0", "113", "17">>
NeighbourIp == <<"203", "0", "113", "99">>
OtherIp == <<"198", "51", "100", "5">>

\* the device signals a client sends along (fp_tz, fp_lang, fp_sw, fp_sh); ""
\* <<>> and 0 are the signals that are missing.  A language is <<first two
\* letters, rest>>
NoSignals ==
  [timezone |-> "", language |-> <<>>, screenWidth |-> 0, screenHeight |-> 0]
PhoneSignals ==
  [timezone |-> "America/New_York", language |-> <<"en", "-US">>,
   screenWidth |-> 1170, screenHeight |-> 2532]

\* what the resolver reads from a request: geoip country of the remote address
\* ("" when unknown), the User-Agent, the primary language of accept-language,
\* the remote address and the device signals of the query string
Requests ==
  [country : {"DE", "US", ""}, ua : UserAgents, language : {"en"},
   ip : {HomeIp}, fp : {PhoneSignals}]

\* the destination columns of a link; "" is a column that is not set
NoUrl == <<>>
NoParams == <<>>
OriginOnly ==
  [original_url |-> "https://origin", ios_universal_link |-> "",
   android_app_link |-> "", app_scheme |-> "", deep_link_path |-> "",
   ios_app_store_url |-> "", android_app_store_url |-> "",
   web_fallback_url |-> "", utm_parameters |-> NoParams,
   deep_link_parameters |-> NoParams]

Destinations ==
  [original_url : {"https://origin"}, ios_universal_link : {"", "https://ul"},
   android_app_link : {"", "https://applink"}, app_scheme : {"", "myapp"},
   deep_link_path : {"", "/p/42"}, ios_app_store_url : {"", "https://appstore"},
   android_app_store_url : {"", "https://play"},
   web_fallback_url : {"", "https://web"}, utm_parameters : {NoParams},
   deep_link_parameters : {NoParams, <<"ref=42">>}]

NoLink == [id |-> 0]
NoEntry == [exp |-> 0]
NoResp == [op |-> "none"]

LinkIds == 1..MaxLinks

\* link:{code} or link:{slug}:{code}
CacheKey(shortCode, templateSlug) ==
  IF templateSlug = NoSlug THEN <<"link", shortCode>>
  ELSE <<"link", templateSlug, shortCode>>

CacheKeys == {CacheKey(c, s) : c \in Codes, s \in Slugs \cup {NoSlug}}

Rows == {links[i] : i \in {j \in DOMAIN links : links[j] # NoLink}}

CodeTaken(c) == \E r \in Rows : r.short_code = c

\* POST /api/links.  first is customCode || generateShortCode(); when it is taken
\* the loop draws fresh random codes: it ends with a free code (retry) or, after
\* 10 collisions in a row, with an error (retry = "exhausted")
CreateLink(first, retry, userId, templateId, expiresAt, rules, dests, window) ==
  /\ CodeTaken(first) => (retry = "exhausted" \/ ~CodeTaken(retry))
  /\ (CodeTaken(first) /\ retry = "exhausted") \/ nextLinkId \in DOMAIN links
  /\ IF CodeTaken(first) /\ retry = "exhausted"
       THEN /\ resp' = [op |-> "create", status |-> 500, link |-> 0]
            /\ UNCHANGED <<links, nextLinkId>>
       ELSE LET shortCode == IF CodeTaken(first) THEN retry ELSE first
                row == [id |-> nextLinkId, user_id |-> userId,
                        template_id |-> templateId, short_code |-> shortCode,
                        is_active |-> TRUE, expires_at |-> expiresAt,
                        targeting_rules |-> rules,
                        attribution_window_hours |->
                          IF window = 0 THEN DefaultLinkWindow ELSE window]
                       @@ dests
            IN /\ links' = [links EXCEPT ![nextLinkId] = row]
               /\ nextLinkId' = nextLinkId + 1
               /\ resp' = [op |-> "create", status |-> 200, link |-> row.id]
  /\ UNCHANGED <<cache, now, recorder, clicks, edits>>
  /\ UNCHANGED rvars
  /\ UNCHANGED <<dvars, cvars>>

\* the rows `WHERE id = $1 [AND user_id = $2]` selects
OwnedRows(id, userId) ==
  {r \in Rows : r.id = id /\ (userId = NoUser \/ r.user_id = userId)}

\* UPDATE links SET <field> = <value>, updated_at = NOW() ... RETURNING *
ApplyUpdate(row, field, value) ==
  [f \in DOMAIN row |-> IF f = field THEN value ELSE row[f]]

UpdateFields ==
  [is_active : BOOLEAN] \cup [expires_at : ExpiryChoices \ {NoExpiry}]
    \cup [template_id : {"t1"}] \cup [targeting_rules : TargetingChoices]

\* the request bodies and requests SpecLinks draws from
CoherenceUpdates ==
  [is_active : BOOLEAN] \cup [expires_at : ExpiryChoices \ {NoExpiry}]
    \cup [template_id : {"t1"}]

CoherenceRequests ==
  [country : {"US"}, ua : {DesktopSafari}, language : {"en"},
   ip : {HomeIp}, fp : {NoSignals}]

\* PUT /api/links/:id with a body setting one field
UpdateLink(id, userId, data) ==
  /\ edits < MaxEdits
  /\ edits' = edits + 1
  /\ LET field == CHOOSE f \in DOMAIN data : TRUE
     IN IF OwnedRows(id, userId) = {}
          THEN /\ resp' = [op |-> "update", status |-> 500, link |-> id]
               /\ UNCHANGED links
          ELSE /\ links' = [links EXCEPT ![id] =
                              ApplyUpdate(@, field, data[field])]
               /\ resp' = [op |-> "update", status |-> 200, link |-> id]
  /\ UNCHANGED <<nextLinkId, cache, now, recorder, clicks>>
  /\ UNCHANGED rvars
  /\ UNCHANGED <<dvars, cvars>>

\* install_events.link_id / click_id are ON DELETE SET NULL
NullLinked(install, gone, goneClicks) ==
  [install EXCEPT !.link_id = IF @ \in gone THEN 0 ELSE @,
                  !.click_id = IF @ \in goneClicks THEN 0 ELSE @]

\* DELETE /api/links/:id; click_events.link_id and device_fingerprints.click_id
\* are ON DELETE CASCADE
DeleteLink(id, userId) ==
  /\ IF OwnedRows(id, userId) = {}
       THEN /\ resp' = [op |-> "delete", status |-> 500, link |-> id]
            /\ UNCHANGED <<links, clicks, fingerprints, installs>>
       ELSE LET goneClicks == {c.id : c \in {k \in clicks : k.link_id = id}}
            IN /\ links' = [links EXCEPT ![id] = NoLink]
               /\ clicks' = {c \in clicks : c.link_id # id}
               /\ fingerprints' = {f \in fingerprints : f.click_id \notin goneClicks}
               /\ installs' = [n \in DOMAIN installs |->
                                 NullLinked(installs[n], {id}, goneClicks)]
               /\ resp' = [op |-> "delete", status |-> 200, link |-> id]
  /\ UNCHANGED <<nextLinkId, cache, now, recorder, edits, published, triggered>>
  /\ UNCHANGED bvars
  /\ UNCHANGED <<dvars, cvars>>

\* redis.get(cacheKey): an entry is visible until its TTL has run out
CacheGet(key) ==
  IF cache[key] # NoEntry /\ now < cache[key].exp THEN cache[key].data ELSE NoLink

\* a store query that forgets the active flag
StoreLookupAnyFlag(shortCode, templateSlug) ==
  {r \in Rows :
     /\ r.short_code = shortCode
     /\ (r.expires_at = NoExpiry \/ r.expires_at > now)
     /\ templateSlug # NoSlug =>
          (r.template_id # NoTemplate /\ TemplateSlug[r.template_id] = templateSlug)}

\* the SELECT of handleRedirect / handleResolve
StoreLookup(shortCode, templateSlug) ==
  {r \in Rows :
     /\ r.short_code = shortCode
     /\ r.is_active
     /\ (r.expires_at = NoExpiry \/ r.expires_at > now)
     /\ templateSlug # NoSlug =>
          (r.template_id # NoTemplate /\ TemplateSlug[r.template_id] = templateSlug)}

\* an entry that lives for an hour
CacheEntryForAnHour(row) == [data |-> row, exp |-> now + 12 * CacheTTL, at |-> now]

\* redis.setex(cacheKey, 300, linkData): the entry is gone at exp; at is when
\* it was written
CacheEntry(row) == [data |-> row, exp |-> now + CacheTTL, at |-> now]

\* a lookup that gives up when the cache cannot be read
LookupCacheRequired(shortCode, templateSlug, redis, getFails, setFails) ==
  LET cacheKey == CacheKey(shortCode, templateSlug)
      linkData == IF redis /\ ~getFails THEN CacheGet(cacheKey) ELSE NoLink
      rows == StoreLookup(shortCode, templateSlug)
  IN IF linkData # NoLink THEN <<linkData, cache, "cache">>
     ELSE IF ~redis THEN <<NoLink, cache, "absent">>
     ELSE IF getFails THEN <<NoLink, cache, "get failed">>
     ELSE IF rows = {} THEN <<NoLink, cache, "store">>
     ELSE LET row == CHOOSE r \in rows : TRUE
          IN <<row, IF setFails THEN cache
                     ELSE [cache EXCEPT ![cacheKey] = CacheEntry(row)],
               IF setFails THEN "set failed" ELSE "store">>

\* the lookup both resolvers share: cache read, store read on miss, write-back.
\* redis is whether fastify.redis is configured; getFails / setFails whether the
\* cache call throws.  The result is <<link or NoLink, cache after the lookup,
\* how the lookup went>>: answered from the cache, without a cache ("absent"),
\* after a cache call that threw, or from the store after a miss ("store")
Lookup(shortCode, templateSlug, redis, getFails, setFails) ==
  LET cacheKey == CacheKey(shortCode, templateSlug)
      linkData == IF redis /\ ~getFails THEN CacheGet(cacheKey) ELSE NoLink
      rows == StoreLookup(shortCode, templateSlug)
      missed == IF ~redis THEN "absent"
                ELSE IF getFails THEN "get failed" ELSE "store"
  IN IF linkData # NoLink THEN <<linkData, cache, "cache">>
     ELSE IF rows = {} THEN <<NoLink, cache, missed>>
     ELSE LET row == CHOOSE r \in rows : TRUE
          IN <<row,
               IF redis /\ ~setFails
                 THEN [cache EXCEPT ![cacheKey] = CacheEntry(row)]
                 ELSE cache,
               IF redis /\ ~getFails /\ setFails THEN "set failed" ELSE missed>>

\* a targeting check that lets a request of unknown country through
IsTargetedUnknownPasses(rules, req) ==
  /\ rules.countries # {} =>
       (req.country = "" \/
        ToUpperCase(req.country) \in {ToUpperCase(c) : c \in rules.countries})
  /\ rules.devices # {} => detectDevice(req.ua) \in rules.devices
  /\ rules.languages # {} =>
       (req.language # "" /\
        ToLowerCase(req.language) \in {ToLowerCase(l) : l \in rules.languages})

\* the targeting check of handleRedirect
IsTargeted(rules, req) ==
  /\ rules.countries # {} =>
       (req.country # "" /\
        ToUpperCase(req.country) \in {ToUpperCase(c) : c \in rules.countries})
  /\ rules.devices # {} => detectDevice(req.ua) \in rules.devices
  /\ rules.languages # {} =>
       (req.language # "" /\
        ToLowerCase(req.language) \in {ToLowerCase(l) : l \in rules.languages})

\* deep_link_path.replace(/^\//, '')
StripLeadingSlash(path) == IF path = "/p/42" THEN "p/42" ELSE path

\* `${link.app_scheme}://${link.deep_link_path.replace(/^\//, '')}`
SchemeUrl(link) == <<link.app_scheme, "://", StripLeadingSlash(link.deep_link_path)>>

HasScheme(link) == link.app_scheme # "" /\ link.deep_link_path # ""

Chosen(url, reason, useSchemeUrl) ==
  [url |-> url, reason |-> reason, useSchemeUrl |-> useSchemeUrl]

\* a fallback chain that prefers the store page to the URI scheme
SelectDestinationStoreFirst(link, device) ==
  CASE device = "ios" ->
         IF link.ios_universal_link # ""
           THEN Chosen(<<link.ios_universal_link>>, "ios_universal_link", FALSE)
         ELSE IF link.ios_app_store_url # ""
           THEN Chosen(<<link.ios_app_store_url>>, "ios_app_store_url", FALSE)
         ELSE IF HasScheme(link) THEN Chosen(SchemeUrl(link), "app_scheme", TRUE)
         ELSE Chosen(<<link.original_url>>, "original_url", FALSE)
    [] device = "android" ->
         IF link.android_app_link # ""
           THEN Chosen(<<link.android_app_link>>, "android_app_link", FALSE)
         ELSE IF link.android_app_store_url # ""
           THEN Chosen(<<link.android_app_store_url>>, "android_app_store_url", FALSE)
         ELSE IF HasScheme(link) THEN Chosen(SchemeUrl(link), "app_scheme", TRUE)
         ELSE Chosen(<<link.original_url>>, "original_url", FALSE)
    [] OTHER ->
         IF link.web_fallback_url # ""
           THEN Chosen(<<link.web_fallback_url>>, "web_fallback_url", FALSE)
         ELSE Chosen(<<link.original_url>>, "original_url", FALSE)

\* the fallback chain of handleRedirect
SelectDestination(link, device) ==
  CASE device = "ios" ->
         IF link.ios_universal_link # ""
           THEN Chosen(<<link.ios_universal_link>>, "ios_universal_link", FALSE)
         ELSE IF HasScheme(link) THEN Chosen(SchemeUrl(link), "app_scheme", TRUE)
         ELSE IF link.ios_app_store_url # ""
           THEN Chosen(<<link.ios_app_store_url>>, "ios_app_store_url", FALSE)
         ELSE Chosen(<<link.original_url>>, "original_url", FALSE)
    [] device = "android" ->
         IF link.android_app_link # ""
           THEN Chosen(<<link.android_app_link>>, "android_app_link", FALSE)
         ELSE IF HasScheme(link) THEN Chosen(SchemeUrl(link), "app_scheme", TRUE)
         ELSE IF link.android_app_store_url # ""
           THEN Chosen(<<link.android_app_store_url>>, "android_app_store_url", FALSE)
         ELSE Chosen(<<link.original_url>>, "original_url", FALSE)
    [] OTHER ->
         IF link.web_fallback_url # ""
           THEN Chosen(<<link.web_fallback_url>>, "web_fallback_url", FALSE)
         ELSE Chosen(<<link.original_url>>, "original_url", FALSE)

\* the final URL: the chosen URL and the query parameters appended to it (UTM
\* parameters only on an HTTP(S) URL, then the deep-link parameters)
FinalUrl(chosen, link) ==
  [url |-> chosen.url,
   query |-> (IF chosen.useSchemeUrl THEN NoParams ELSE link.utm_parameters)
               \o link.deep_link_parameters]

\* an interstitial served to every iOS in-app browser, scheme or not
InterstitialSchemeAlways(link) ==
  IF HasScheme(link) THEN SchemeUrl(link) ELSE <<link.original_url>>

\* link.custom_scheme_url || (app_scheme && deep_link_path ? scheme URL : null);
\* the links table has no custom_scheme_url column
InterstitialScheme(link) == IF HasScheme(link) THEN SchemeUrl(link) ELSE NoUrl

\* link.ios_app_store_url || link.web_fallback_url || link.original_url
StoreFallback(link) ==
  IF link.ios_app_store_url # "" THEN <<link.ios_app_store_url>>
  ELSE IF link.web_fallback_url # "" THEN <<link.web_fallback_url>>
  ELSE <<link.original_url>>

\* createServer registers wellKnown, redirect, link, analytics, sdk, webhook and
\* qr routes: the preHandler hook of previewRoutes is on no route
PreviewHookInstalled == FALSE

\* the preHandler hook: a social scraper gets the preview page of the link the
\* store finds under the last path segment
HookAnswers(shortCode, req) ==
  /\ PreviewHookInstalled
  /\ isSocialScraper(req.ua)
  /\ StoreLookup(shortCode, NoSlug) # {}

Scheduled == Len(recorder)

\* a response that names no URL, and redirectUrl: '' of the resolve recorder
NoLocation == [url |-> NoUrl, query |-> NoParams]

\* the redirectUrl the redirect recorder puts on the click event: its own copy
\* of the fallback chain, then buildRedirectUrl(redirectUrl, utm_parameters)
EventRedirectUrl(link, deviceType) ==
  [url |-> SelectDestination(link, deviceType).url, query |-> link.utm_parameters]

\* a recording that has written its click row by the time the handler answers
TaskAlreadyWriting(link, op, reason, req, sent) ==
  [link_id |-> link.id, user_id |-> link.user_id, op |-> op, reason |-> reason,
   req |-> req, state |-> "clicked", redirectUrl |-> NoLocation, sent |-> sent]

\* what the setImmediate callback keeps of its request: the link of the closure
\* (its id, owner and the redirectUrl the callback derives from it) and the
\* request; sent is what the handler answered, kept for comparison
Task(link, op, reason, req, sent) ==
  [link_id |-> link.id, user_id |-> link.user_id, op |-> op, reason |-> reason,
   req |-> req, state |-> "scheduled",
   redirectUrl |-> IF op = "redirect"
                     THEN EventRedirectUrl(link, detectDevice(req.ua))
                     ELSE NoLocation,
   sent |-> sent]

\* the FingerprintData the callback builds from its request
RequestFingerprint(req) ==
  [ipAddress |-> req.ip, userAgent |-> req.ua, timezone |-> req.fp.timezone,
   language |-> req.fp.language, screenWidth |-> req.fp.screenWidth,
   screenHeight |-> req.fp.screenHeight]

\* what a resolver answers to; data is the link the lookup returned
Answer(op, shortCode, templateSlug, req, link) ==
  [op |-> op, code |-> shortCode, slug |-> templateSlug, req |-> req,
   data |-> link, link |-> link.id]

\* GET /:shortCode and GET /:templateSlug/:shortCode
HandleRedirect(shortCode, templateSlug, req, redis, getFails, setFails) ==
  LET found == Lookup(shortCode, templateSlug, redis, getFails, setFails)
      link == found[1]
      device == detectDevice(req.ua)
      answer == Answer("redirect", shortCode, templateSlug, req, link)
                  @@ [lookup |-> found[3]]
  IN /\ cache' = IF HookAnswers(shortCode, req) THEN cache ELSE found[2]
     /\ IF HookAnswers(shortCode, req)
          THEN /\ resp' = [op |-> "preview", code |-> shortCode, status |-> 200]
               /\ UNCHANGED recorder
          ELSE
        IF link = NoLink \/ ~IsTargeted(link.targeting_rules, req)
          THEN /\ resp' = answer @@ [status |-> 404, kind |-> "notfound",
                                     location |-> NoUrl, fallback |-> NoUrl]
               /\ UNCHANGED recorder
          ELSE LET chosen == SelectDestination(link, device)
                   schemeUrl == InterstitialScheme(link)
                   response ==
                     IF device = "ios" /\ isIOSInAppBrowser(req.ua)
                        /\ schemeUrl # NoUrl
                       THEN [status |-> 200, kind |-> "interstitial",
                             location |-> [url |-> schemeUrl,
                                           query |-> link.deep_link_parameters],
                             fallback |-> StoreFallback(link)]
                       ELSE [status |-> 302, kind |-> "redirect",
                             location |-> FinalUrl(chosen, link),
                             fallback |-> NoUrl]
               IN /\ Scheduled < MaxClicks
                  /\ recorder' = Append(recorder,
                                   Task(link, "redirect", chosen.reason, req,
                                        [kind |-> response.kind,
                                         location |-> response.location]))
                  /\ resp' = answer @@ response
     /\ UNCHANGED <<links, nextLinkId, now, clicks, edits>>
     /\ UNCHANGED rvars
     /\ UNCHANGED <<dvars, cvars>>

\* GET /api/sdk/v1/resolve/:shortCode and .../:templateSlug/:shortCode
HandleResolve(shortCode, templateSlug, req, redis, getFails, setFails) ==
  LET found == Lookup(shortCode, templateSlug, redis, getFails, setFails)
      link == found[1]
      answer == Answer("resolve", shortCode, templateSlug, req, link)
                  @@ [lookup |-> found[3]]
  IN /\ cache' = found[2]
     /\ IF link = NoLink
          THEN /\ resp' = answer @@ [status |-> 404, kind |-> "notfound",
                                     location |-> NoUrl, fallback |-> NoUrl]
               /\ UNCHANGED recorder
          ELSE /\ Scheduled < MaxClicks
               /\ recorder' = Append(recorder,
                                Task(link, "resolve", "sdk_resolve", req,
                                     [kind |-> "json", location |-> NoLocation]))
               /\ resp' = answer @@ [status |-> 200, kind |-> "json",
                                     location |-> NoUrl, fallback |-> NoUrl]
     /\ UNCHANGED <<links, nextLinkId, now, clicks, edits>>
     /\ UNCHANGED rvars
     /\ UNCHANGED <<dvars, cvars>>

\* a callback that goes on with its next step after an error
CarriesOn(task, next) == [task EXCEPT !.state = next]

\* the catch of the callback: the error is logged and the callback ends, so
\* the step that would have come next never runs
Stopped(task, next) == [task EXCEPT !.state = "failed"]

\* a store that has lost every link row
LinkRowNeverFound(id) == FALSE

\* click_events.link_id REFERENCES links(id): the insert needs the link's row
LinkRowExists(id) == \E r \in Rows : r.id = id

\* the setImmediate callback of a resolver up to its first store write, INSERT
\* INTO click_events: the insert fails on the foreign key when the link row is
\* gone, and the callback logs the error and ends
RecordClick(n) ==
  /\ n \in 1..Len(recorder)
  /\ recorder[n].state = "scheduled"
  /\ IF LinkRowExists(recorder[n].link_id)
       THEN /\ clicks' = clicks \cup {[id |-> n, link_id |-> recorder[n].link_id,
                                           clicked_at |-> now]}
            /\ recorder' = [recorder EXCEPT ![n].state = "clicked"]
       ELSE /\ recorder' = [recorder EXCEPT ![n] = Stopped(@, "clicked")]
            /\ UNCHANGED clicks
  /\ resp' = NoResp
  /\ UNCHANGED <<links, nextLinkId, cache, now, edits>>
  /\ UNCHANGED rvars
  /\ UNCHANGED <<dvars, cvars>>

\* bound: the listeners ever registered on the click event bus
MaxSubscribers == 2

\* a listener: the callback of GET /api/debug/live with its userId / linkId
\* query filters ("" and 0 when absent), which sends inside try / catch, or a
\* callback registered through the exported subscribeToClickEvents that throws
SocketListener(userId, linkId) ==
  [kind |-> "socket", userId |-> userId, linkId |-> linkId, on |-> TRUE]
ThrowingListener ==
  [kind |-> "throws", userId |-> "", linkId |-> 0, on |-> TRUE]

\* a filter that lets an event through when either field matches
FilterPassesEither(sub, event) ==
  \/ sub.userId = "" /\ sub.linkId = 0
  \/ sub.userId # "" /\ event.userId = sub.userId
  \/ sub.linkId # 0 /\ event.linkId = sub.linkId

\* the two early returns of the WebSocket callback
FilterPasses(sub, event) ==
  /\ sub.userId # "" => event.userId = sub.userId
  /\ sub.linkId # 0 => event.linkId = sub.linkId

\* clickEventEmitter.on('click', callback)
Subscribe(sub) ==
  /\ Len(subscribers) < MaxSubscribers
  /\ subscribers' = Append(subscribers, sub)
  /\ resp' = NoResp
  /\ UNCHANGED <<links, nextLinkId, cache, now, recorder, clicks, edits,
                 fingerprints, published, triggered, installs,
                 appEvents, received, pending>>
  /\ UNCHANGED <<dvars, cvars>>

\* the cancellation handle, which socket close and socket error invoke:
\* clickEventEmitter.off('click', callback)
Unsubscribe(i) ==
  /\ i \in 1..Len(subscribers)
  /\ subscribers[i].on
  /\ subscribers' = [subscribers EXCEPT ![i].on = FALSE]
  /\ resp' = NoResp
  /\ UNCHANGED <<links, nextLinkId, cache, now, recorder, clicks, edits,
                 fingerprints, published, triggered, installs,
                 appEvents, received, pending>>
  /\ UNCHANGED <<dvars, cvars>>

\* the registered listener that throws first, 0 when none does
FirstThrower ==
  LET throwers == {i \in 1..Len(subscribers) :
                     subscribers[i].on /\ subscribers[i].kind = "throws"}
  IN IF throwers = {} THEN 0 ELSE CHOOSE i \in throwers : \A j \in throwers : i <= j

\* EventEmitter.emit calls the listeners in registration order and stops at
\* the first one that throws
Called ==
  {i \in 1..Len(subscribers) :
     subscribers[i].on /\ (FirstThrower = 0 \/ i <= FirstThrower)}

\* the sends emitClickEvent(event) leads to
Sent(event) ==
  {<<i, event.eventId>> :
     i \in {j \in Called : /\ subscribers[j].kind = "socket"
                            /\ FilterPasses(subscribers[j], event)}}

\* a click event that does not say which click it is about
ClickEventUnnumbered(n) ==
  [eventId |-> 0, linkId |-> recorder[n].link_id,
   userId |-> recorder[n].user_id, redirectUrl |-> recorder[n].redirectUrl,
   redirectReason |-> recorder[n].reason]

\* the argument of emitClickEvent: eventId is the id INSERT INTO click_events
\* returned
ClickEvent(n) ==
  [eventId |-> n, linkId |-> recorder[n].link_id,
   userId |-> recorder[n].user_id, redirectUrl |-> recorder[n].redirectUrl,
   redirectReason |-> recorder[n].reason]

\* storeFingerprintForClick, then emitClickEvent: the fingerprint insert fails
\* (throws is a store error) when the click row is gone or the store errs, and
\* then nothing is published; a listener that throws ends the callback too
StoreFingerprint(n, throws) ==
  /\ n \in 1..Len(recorder)
  /\ recorder[n].state = "clicked"
  /\ IF ~throws /\ \E c \in clicks : c.id = n
       THEN LET event == ClickEvent(n)
            IN /\ fingerprints' = fingerprints \cup
                    {[click_id |-> n, data |-> RequestFingerprint(recorder[n].req)]}
               /\ published' = published \cup {event}
               /\ received' = received \cup Sent(event)
               /\ recorder' = [recorder EXCEPT ![n] =
                                 IF FirstThrower = 0
                                   THEN [@ EXCEPT !.state = "published"]
                                   ELSE Stopped(@, "published")]
       ELSE /\ recorder' = [recorder EXCEPT ![n] = Stopped(@, "published")]
            /\ UNCHANGED <<fingerprints, published, received>>
  /\ resp' = NoResp
  /\ UNCHANGED <<links, nextLinkId, cache, now, clicks, edits, triggered, installs,
                 appEvents, subscribers, pending>>
  /\ UNCHANGED <<dvars, cvars>>

\* a lookup that takes every active webhook, whoever owns it
ActiveWebhooksOfAnyone(userId) ==
  {w \in DOMAIN webhooks : webhooks[w].is_active}

\* SELECT * FROM webhooks WHERE user_id = $1 AND is_active = true
ActiveWebhooksOf(userId) ==
  {w \in DOMAIN webhooks : webhooks[w].user_id = userId /\ userId # NoUser
                           /\ webhooks[w].is_active}

\* webhooks.filter(webhook => webhook.is_active && webhook.events.includes(event))
\* over the rows a caller hands to triggerWebhooks
RelevantAmong(rows, event) ==
  {w \in rows : webhooks[w].is_active /\ event \in webhooks[w].events}

\* one call of triggerWebhooks by a background task: the rows it was handed,
\* the webhooks a delivery is started for, and the data of the payload
Triggering(event, eventId, rows, data) ==
  [event |-> event, event_id |-> eventId, webhooks |-> rows,
   started |-> RelevantAmong(rows, event), data |-> data]

\* clickEventData of the recorders
ClickEventData(n) ==
  [id |-> n, linkId |-> recorder[n].link_id, ipAddress |-> recorder[n].req.ip,
   userAgent |-> recorder[n].req.ua,
   deviceType |-> detectDevice(recorder[n].req.ua)]

\* the end of the callback: the owner's active webhooks are handed to
\* triggerWebhooks when there are any; a lookup that fails (lookupFails) is
\* logged by the inner catch
TriggerClickWebhooks(n, lookupFails) ==
  /\ n \in 1..Len(recorder)
  /\ recorder[n].state = "published"
  /\ LET rows == ActiveWebhooksOf(recorder[n].user_id)
     IN triggered' = IF lookupFails \/ rows = {} THEN triggered
                     ELSE triggered \cup {Triggering("click_event", n, rows,
                                                     ClickEventData(n))}
  /\ recorder' = [recorder EXCEPT ![n].state = "done"]
  /\ resp' = NoResp
  /\ UNCHANGED <<links, nextLinkId, cache, now, clicks, edits,
                 fingerprints, published, installs>>
  /\ UNCHANGED bvars
  /\ UNCHANGED <<dvars, cvars>>

\* TickSec seconds pass; redis drops the entries whose TTL has run out
TickClock ==
  /\ now + TickSec <= MaxTime
  /\ now' = now + TickSec
  /\ cache' = [k \in DOMAIN cache |->
                 IF cache[k] # NoEntry /\ cache[k].exp <= now + TickSec
                   THEN NoEntry ELSE cache[k]]
  /\ resp' = NoResp
  /\ UNCHANGED <<links, nextLinkId, recorder, clicks, edits>>
  /\ UNCHANGED rvars
  /\ UNCHANGED <<dvars, cvars>>

(***************************************************************************)
(* Webhook CRUD routes                                                     *)
(***************************************************************************)
DefaultTimeoutMs == 10000
CreateRetryCount == 3

\* the columns GET /api/webhooks selects
ListColumns ==
  {"id", "user_id", "events", "is_active", "retry_count", "timeout_ms", "headers"}

\* SELECT * / RETURNING *
AllColumns(row) == row

\* a list query that selects every column
SelectStar(row) == row

\* SELECT id, user_id, name, url, events, ... FROM webhooks
SelectListColumns(row) == [f \in ListColumns |-> row[f]]

WebhookRowsOf(userId) ==
  {webhooks[w] : w \in {v \in DOMAIN webhooks :
                          userId = NoUser \/ webhooks[v].user_id = userId}}

\* GET /api/webhooks
ListWebhooks(userId) ==
  /\ whResp' = [op |-> "list", status |-> 200,
                rows |-> {SelectListColumns(r) : r \in WebhookRowsOf(userId)}]
  /\ UNCHANGED <<webhooks, delivery, caller, testResp>>
  /\ UNCHANGED lvars

\* the rows `WHERE id = $1 [AND user_id = $2]` selects
WebhookById(id, userId) == {r \in WebhookRowsOf(userId) : r.id = id}

\* GET /api/webhooks/:id
GetWebhook(id, userId) ==
  /\ whResp' = IF WebhookById(id, userId) = {}
                 THEN [op |-> "get", status |-> 500, rows |-> {}]
                 ELSE [op |-> "get", status |-> 200,
                       rows |-> {AllColumns(r) : r \in WebhookById(id, userId)}]
  /\ UNCHANGED <<webhooks, delivery, caller, testResp>>
  /\ UNCHANGED lvars

\* POST /api/webhooks; secret is generateWebhookSecret(), id the fresh uuid
CreateWebhook(id, secret, userId, events, retryCount, headers) ==
  /\ id \notin DOMAIN webhooks
  /\ LET row == [id |-> id, user_id |-> userId, secret |-> secret,
                 events |-> events, is_active |-> TRUE,
                 retry_count |-> IF retryCount = 0 THEN CreateRetryCount
                                 ELSE retryCount,
                 timeout_ms |-> DefaultTimeoutMs, headers |-> headers]
     IN /\ webhooks' = [w \in DOMAIN webhooks \cup {id} |->
                          IF w = id THEN row ELSE webhooks[w]]
        /\ whResp' = [op |-> "create", status |-> 200, rows |-> {AllColumns(row)}]
  /\ UNCHANGED <<delivery, caller, testResp>>
  /\ UNCHANGED lvars

WebhookUpdates ==
  [is_active : BOOLEAN] \cup [retry_count : {1, 2}]
    \cup [events : {{"click_event"}, {"install_event"}}] \cup {<<>>}

\* PUT /api/webhooks/:id; data sets the fields in its domain
UpdateWebhook(id, userId, data) ==
  /\ IF DOMAIN data = {} \/ WebhookById(id, userId) = {}
       THEN /\ whResp' = [op |-> "update", status |-> 500, rows |-> {}]
            /\ UNCHANGED webhooks
       ELSE LET row == [f \in DOMAIN webhooks[id] |->
                          IF f \in DOMAIN data THEN data[f] ELSE webhooks[id][f]]
            IN /\ webhooks' = [webhooks EXCEPT ![id] = row]
               /\ whResp' = [op |-> "update", status |-> 200,
                             rows |-> {AllColumns(row)}]
  /\ UNCHANGED <<delivery, caller, testResp>>
  /\ UNCHANGED lvars

\* DELETE /api/webhooks/:id
DeleteWebhook(id, userId) ==
  /\ IF WebhookById(id, userId) = {}
       THEN /\ whResp' = [op |-> "delete", status |-> 500, rows |-> {}]
            /\ UNCHANGED webhooks
       ELSE /\ webhooks' = [w \in DOMAIN webhooks \ {id} |-> webhooks[w]]
            /\ whResp' = [op |-> "delete", status |-> 200, rows |-> {}]
  /\ UNCHANGED <<delivery, caller, testResp>>
  /\ UNCHANGED lvars

LinksIdle ==
  /\ links = [i \in LinkIds |-> NoLink]
  /\ nextLinkId = 1
  /\ cache = [k \in CacheKeys |-> NoEntry]
  /\ now = 0
  /\ recorder = <<>>
  /\ clicks = {}
  /\ fingerprints = {}
  /\ published = {}
  /\ triggered = {}
  /\ installs = <<>>
  /\ appEvents = {}
  /\ subscribers = <<>>
  /\ received = {}
  /\ pending = {}
  /\ edits = 0
  /\ resp = NoResp
  /\ whResp = NoWhResp

DispatcherIdle ==
  /\ webhooks = <<>>
  /\ delivery = <<>>
  /\ caller = "idle"
  /\ testResp = NoTestResp

CrudNext ==
  \/ \E userId \in Users \cup {NoUser} : ListWebhooks(userId)
  \/ \E id \in WebhookIds, userId \in Users \cup {NoUser} : GetWebhook(id, userId)
  \/ \E id \in WebhookIds, secret \in Secrets, userId \in {"u1", NoUser},
        retryCount \in {0, 1} :
       CreateWebhook(id, secret, userId, {"click_event"}, retryCount, NoHeaders)
  \/ \E id \in WebhookIds, userId \in Users \cup {NoUser}, data \in WebhookUpdates :
       UpdateWebhook(id, userId, data)
  \/ \E id \in WebhookIds, userId \in Users \cup {NoUser} : DeleteWebhook(id, userId)

CrudInit == DispatcherIdle /\ LinksIdle

SpecCrud == CrudInit /\ [][CrudNext]_vars

(***************************************************************************)
(* Specifications of the dispatcher                                        *)
(***************************************************************************)
RetryCounts == {1, 3, 7}
TimeoutChoices == {1000, 2000}
HeaderChoices ==
  { NoHeaders,
    [h \in {"User-Agent"} |-> <<"custom-agent">>],
    [h \in {"X-LinkForty-Signature"} |-> <<"sha256=", "forged">>],
    [h \in {"X-LinkForty-Event", "X-LinkForty-Event-ID"} |-> <<"spoofed">>] }

WebhookRows(retries, timeouts, headerSets, eventSets) ==
  [user_id : {NoUser}, secret : Secrets, events : eventSets, is_active : BOOLEAN,
   retry_count : retries, timeout_ms : timeouts, headers : headerSets]

DeliveryNext ==
  \/ \E e \in WebhookEvents, log \in BOOLEAN : TriggerWebhooks(e, log)
  \/ \E w \in WebhookIds : TestWebhook(w)
  \/ \E w \in WebhookIds : TestReturns(w)
  \/ \E w \in WebhookIds, s \in Statuses : ResponseHead(w, s)
  \/ \E w \in WebhookIds, len \in BodyLengths \cup {-1} : ResponseBody(w, len)
  \/ \E w \in WebhookIds : FetchError(w)
  \/ \E w \in WebhookIds : TimeoutFires(w)
  \/ \E w \in WebhookIds : Wake(w)
  \/ Tick

\* one webhook, every configuration the create/update schemas admit (sampled)
DeliveryInit ==
  /\ webhooks \in [{"w1"} ->
       WebhookRows(RetryCounts, TimeoutChoices, HeaderChoices,
                   {{"click_event"}, {"install_event", "conversion_event"}})]
  /\ delivery = [w \in {"w1"} |-> IdleDelivery]
  /\ caller = "idle"
  /\ testResp = NoTestResp
  /\ LinksIdle

SpecDelivery == DeliveryInit /\ [][DeliveryNext]_vars

\* two webhooks receiving the same event
FanoutInit ==
  /\ webhooks \in [WebhookIds ->
       WebhookRows({1, 2}, {1000}, {NoHeaders},
                   {{"click_event"}, {"click_event", "install_event"}})]
  /\ webhooks["w1"].secret = "k1"
  /\ webhooks["w2"].secret = "k2"
  /\ delivery = [w \in WebhookIds |-> IdleDelivery]
  /\ caller = "idle"
  /\ testResp = NoTestResp
  /\ LinksIdle

SpecFanout == FanoutInit /\ [][DeliveryNext]_vars

LinksNext ==
  \/ \E first \in Codes, retry \in Codes \cup {"exhausted"},
        userId \in {"u1"}, templateId \in {NoTemplate, "t1"},
        expiresAt \in ExpiryChoices, rules \in {NoRules} :
       CreateLink(first, retry, userId, templateId, expiresAt, rules,
                  OriginOnly, DefaultLinkWindow)
  \/ \E id \in LinkIds, userId \in {NoUser, "u2"}, data \in CoherenceUpdates :
       UpdateLink(id, userId, data)
  \/ \E id \in LinkIds, userId \in {NoUser, "u2"} : DeleteLink(id, userId)
  \/ \E c \in Codes, s \in Slugs \cup {NoSlug}, req \in CoherenceRequests,
        getFails, setFails \in BOOLEAN :
       HandleRedirect(c, s, req, TRUE, getFails, setFails)
  \/ \E c \in Codes, s \in Slugs \cup {NoSlug}, req \in CoherenceRequests,
        getFails, setFails \in BOOLEAN :
       HandleResolve(c, s, req, TRUE, getFails, setFails)
  \/ \E n \in 1..MaxClicks : RecordClick(n)
  \/ TickClock

LinksInit == LinksIdle /\ DispatcherIdle

SpecLinks == LinksInit /\ [][LinksNext]_vars

(***************************************************************************)
(* Specifications of the resolvers                                         *)
(***************************************************************************)
\* bound: the link rows SpecReuse can insert one after another
MaxReuse == 2

\* the webhook of owner u1 the click recorder finds
OwnerWebhook ==
  [user_id |-> "u1", secret |-> "k1", events |-> {"click_event"},
   is_active |-> TRUE, retry_count |-> CreateRetryCount,
   timeout_ms |-> DefaultTimeoutMs, headers |-> NoHeaders]

\* a server with no link yet, table capacity n, and one webhook of owner u1
ResolverIdle(n) ==
  /\ links = [i \in 1..n |-> NoLink]
  /\ nextLinkId = 1
  /\ cache = [k \in CacheKeys |-> NoEntry]
  /\ now = 0
  /\ recorder = <<>>
  /\ clicks = {}
  /\ fingerprints = {}
  /\ published = {}
  /\ triggered = {}
  /\ installs = <<>>
  /\ appEvents = {}
  /\ subscribers = <<>>
  /\ received = {}
  /\ pending = {}
  /\ edits = 0
  /\ resp = NoResp
  /\ whResp = NoWhResp
  /\ webhooks = [w \in {"w1"} |-> OwnerWebhook]
  /\ delivery = [w \in {"w1"} |-> IdleDelivery]
  /\ caller = "idle"
  /\ testResp = NoTestResp

WebFallback == [OriginOnly EXCEPT !.web_fallback_url = "https://web"]

ReuseRequests ==
  [country : {"US"}, ua : {DesktopSafari}, language : {"en"},
   ip : {HomeIp}, fp : {NoSignals}]

\* links created, deleted and created again under the same custom code
ReuseNext ==
  \/ \E dests \in {OriginOnly, WebFallback} :
       CreateLink("c1", "exhausted", "u1", NoTemplate, NoExpiry, NoRules,
                  dests, DefaultLinkWindow)
  \/ \E id \in 1..MaxReuse : DeleteLink(id, NoUser)
  \/ \E req \in ReuseRequests, getFails \in BOOLEAN :
       HandleRedirect("c1", NoSlug, req, TRUE, getFails, FALSE)
  \/ \E req \in ReuseRequests, getFails \in BOOLEAN :
       HandleResolve("c1", NoSlug, req, TRUE, getFails, FALSE)
  \/ \E n \in 1..MaxClicks : RecordClick(n)
  \/ \E n \in 1..MaxClicks : StoreFingerprint(n, FALSE)
  \/ \E n \in 1..MaxClicks : TriggerClickWebhooks(n, FALSE)

ReuseInit == ResolverIdle(MaxReuse)

SpecReuse == ReuseInit /\ [][ReuseNext]_vars

\* bound: the click recordings SpecTargeting schedules
MaxServed == 1

\* rules on all three dimensions at once
AllRules == [countries |-> {"de"}, devices |-> {"ios"}, languages |-> {"EN"}]

TargetingRules == {NoRules, AllRules}

\* one request that passes AllRules and one rejected on each dimension
TargetingRequests ==
  {[country |-> cdl[1], ua |-> cdl[2], language |-> cdl[3], ip |-> HomeIp,
    fp |-> PhoneSignals] :
     cdl \in {<<"DE", IPhoneSafari, "en">>, <<"", IPhoneSafari, "en">>,
              <<"DE", TwitterbotAgent, "en">>, <<"DE", IPhoneSafari, "fr">>}}

\* SDK resolve reads no rule: the passing request and the one of unknown country
TargetingResolves ==
  {req \in TargetingRequests : req.ua = IPhoneSafari /\ req.language = "en"}

TargetingUpdates == [is_active : BOOLEAN] \cup [targeting_rules : TargetingRules]

\* one link whose rules and active flag change while requests arrive
TargetingNext ==
  \/ \E rules \in TargetingRules :
       CreateLink("c1", "exhausted", "u1", NoTemplate, NoExpiry, rules,
                  OriginOnly, DefaultLinkWindow)
  \/ \E id \in LinkIds, data \in TargetingUpdates : UpdateLink(id, NoUser, data)
  \/ \E id \in LinkIds : DeleteLink(id, NoUser)
  \/ \E req \in TargetingRequests :
       /\ HandleRedirect("c1", NoSlug, req, TRUE, FALSE, FALSE)
       /\ Len(recorder') <= MaxServed
  \/ \E req \in TargetingResolves :
       /\ HandleResolve("c1", NoSlug, req, TRUE, FALSE, FALSE)
       /\ Len(recorder') <= MaxServed
  \/ \E n \in 1..MaxClicks : RecordClick(n)
  \/ \E n \in 1..MaxClicks : StoreFingerprint(n, FALSE)
  \/ \E n \in 1..MaxClicks : TriggerClickWebhooks(n, FALSE)

TargetingInit == ResolverIdle(MaxLinks)

SpecTargeting == TargetingInit /\ [][TargetingNext]_vars

DestinationRequests ==
  [country : {"US"},
   ua : {DesktopSafari, IPhoneSafari, IPhoneGmail, AndroidChrome},
   language : {"en"}, ip : {HomeIp}, fp : {NoSignals}]

\* a link row as POST /api/links stores it
StoredLink(id, shortCode, dests, window) ==
  [id |-> id, user_id |-> "u1", template_id |-> NoTemplate,
   short_code |-> shortCode, is_active |-> TRUE, expires_at |-> NoExpiry,
   targeting_rules |-> NoRules, attribution_window_hours |-> window] @@ dests

\* one stored link, with every combination of destination columns
DestinationInit ==
  /\ \E dests \in Destinations :
       links = [i \in LinkIds |-> IF i = 1 THEN StoredLink(1, "c1", dests, DefaultLinkWindow)
                                    ELSE NoLink]
  /\ nextLinkId = 2
  /\ cache = [k \in CacheKeys |-> NoEntry]
  /\ now = 0
  /\ recorder = <<>>
  /\ clicks = {}
  /\ fingerprints = {}
  /\ published = {}
  /\ triggered = {}
  /\ installs = <<>>
  /\ appEvents = {}
  /\ subscribers = <<>>
  /\ received = {}
  /\ pending = {}
  /\ edits = 0
  /\ resp = NoResp
  /\ whResp = NoWhResp
  /\ DispatcherIdle

DestinationNext ==
  \/ \E req \in DestinationRequests :
       HandleRedirect("c1", NoSlug, req, TRUE, FALSE, FALSE)
  \/ \E n \in 1..MaxClicks : RecordClick(n)

SpecDestination == DestinationInit /\ [][DestinationNext]_vars

\* User-Agents of every class, in the letter case browsers send and in upper
\* case, one naming both platforms, and a request without the header
DeviceAgents ==
  {DesktopSafari, IPhoneSafari, IPhoneGmail, AndroidChrome,
   <<"MOZILLA", "IPHONE">>, <<"Mozilla", "iPad", "Safari">>,
   <<"Mozilla", "iPod", "Safari">>, <<"MOZILLA", "LINUX", "ANDROID">>,
   <<"Mozilla", "Android", "iPhone", "Safari">>, <<"Mozilla", "Linux", "Chrome">>,
   <<>>}

DeviceRequests ==
  [country : {"US"}, ua : DeviceAgents, language : {"en"}, ip : {HomeIp},
   fp : {NoSignals}]

\* targeting_rules.devices of the link
DeviceRules == {{}, {"ios"}, {"android"}, {"web"}, {"ios", "android"}}

\* a link with one store page per platform and a web fallback
PerDevice ==
  [OriginOnly EXCEPT !.ios_app_store_url = "https://appstore",
                     !.android_app_store_url = "https://play",
                     !.web_fallback_url = "https://web"]

\* one stored link with a device rule
DeviceInit ==
  /\ \E devices \in DeviceRules :
       links = [i \in LinkIds |->
                  IF i = 1
                    THEN [StoredLink(1, "c1", PerDevice, DefaultLinkWindow)
                            EXCEPT !.targeting_rules.devices = devices]
                    ELSE NoLink]
  /\ nextLinkId = 2
  /\ cache = [k \in CacheKeys |-> NoEntry]
  /\ now = 0
  /\ recorder = <<>>
  /\ clicks = {}
  /\ fingerprints = {}
  /\ published = {}
  /\ triggered = {}
  /\ installs = <<>>
  /\ appEvents = {}
  /\ subscribers = <<>>
  /\ received = {}
  /\ pending = {}
  /\ edits = 0
  /\ resp = NoResp
  /\ whResp = NoWhResp
  /\ DispatcherIdle

DeviceNext ==
  \/ \E req \in DeviceRequests :
       /\ HandleRedirect("c1", NoSlug, req, FALSE, FALSE, FALSE)
       /\ Len(recorder') <= MaxServed
  \/ \E n \in 1..MaxClicks : RecordClick(n)

SpecDevice == DeviceInit /\ [][DeviceNext]_vars

\* one stored link, with or without an expiry date
CacheInit ==
  /\ \E expiresAt \in ExpiryChoices :
       links = [i \in LinkIds |->
                  IF i = 1
                    THEN [StoredLink(1, "c1", OriginOnly, DefaultLinkWindow)
                            EXCEPT !.expires_at = expiresAt]
                    ELSE NoLink]
  /\ nextLinkId = 2
  /\ cache = [k \in CacheKeys |-> NoEntry]
  /\ now = 0
  /\ recorder = <<>>
  /\ clicks = {}
  /\ fingerprints = {}
  /\ published = {}
  /\ triggered = {}
  /\ installs = <<>>
  /\ appEvents = {}
  /\ subscribers = <<>>
  /\ received = {}
  /\ pending = {}
  /\ edits = 0
  /\ resp = NoResp
  /\ whResp = NoWhResp
  /\ DispatcherIdle

\* the link is switched off and on and given an expiry date while requests
\* arrive and time passes
CacheNext ==
  \/ \E req \in CoherenceRequests, redis, getFails, setFails \in BOOLEAN :
       HandleRedirect("c1", NoSlug, req, redis, getFails, setFails)
  \/ \E req \in CoherenceRequests, redis, getFails, setFails \in BOOLEAN :
       HandleResolve("c1", NoSlug, req, redis, getFails, setFails)
  \/ \E data \in [is_active : BOOLEAN] \cup [expires_at : ExpiryChoices \ {NoExpiry}] :
       UpdateLink(1, NoUser, data)
  \/ TickClock

SpecCache == CacheInit /\ [][CacheNext]_vars

(***************************************************************************)
(* Concurrent link creation: routes/links                                  *)
(***************************************************************************)
\* bound: the rows the links table can take
MaxCreated == 2
\* bound: the create and duplicate requests between their check and INSERT
MaxPending == 2

\* customCode of the requests and the codes generateShortCode can draw
CreateCodes == {"c1", "c2"}

\* a table without the unique index on short_code
InsertAlwaysAccepted(shortCode) == FALSE

\* short_code VARCHAR(20) UNIQUE and idx_links_short_code: the INSERT of a
\* code some row has fails
InsertRejected(shortCode) == CodeTaken(shortCode)

\* a request that has finished its uniqueness loop and not yet run its INSERT
Unfinished(op, shortCode, row) ==
  [slot |-> CHOOSE k \in 1..MaxPending : \A q \in pending : q.slot # k,
   op |-> op, short_code |-> shortCode, row |-> row]

\* POST /api/links up to the INSERT: first is customCode || generateShortCode();
\* the loop SELECTs the code and draws again while it is taken
CheckCode(first, retry) ==
  /\ Cardinality(pending) < MaxPending
  /\ CodeTaken(first) => (retry = "exhausted" \/ ~CodeTaken(retry))
  /\ IF CodeTaken(first) /\ retry = "exhausted"
       THEN /\ resp' = [op |-> "create", status |-> 500, link |-> 0,
                        short_code |-> first, error |-> "no unique code"]
            /\ UNCHANGED pending
       ELSE /\ pending' = pending \cup
                 {Unfinished("create", IF CodeTaken(first) THEN retry ELSE first,
                           StoredLink(0, "", OriginOnly, DefaultLinkWindow))}
            /\ resp' = NoResp
  /\ UNCHANGED <<links, nextLinkId, cache, now, recorder, clicks, edits,
                 fingerprints, published, triggered, installs, appEvents,
                 subscribers, received>>
  /\ UNCHANGED <<dvars, cvars>>

\* POST /api/links/:id/duplicate up to the INSERT: the original is read, then
\* the same loop runs on a generated code
CheckDuplicate(id, first, retry) ==
  /\ Cardinality(pending) < MaxPending
  /\ CodeTaken(first) => (retry = "exhausted" \/ ~CodeTaken(retry))
  /\ IF OwnedRows(id, NoUser) = {} \/ (CodeTaken(first) /\ retry = "exhausted")
       THEN /\ resp' = [op |-> "duplicate", status |-> 500, link |-> 0,
                        short_code |-> first,
                        error |-> IF OwnedRows(id, NoUser) = {}
                                    THEN "not found" ELSE "no unique code"]
            /\ UNCHANGED pending
       ELSE /\ pending' = pending \cup
                 {Unfinished("duplicate", IF CodeTaken(first) THEN retry ELSE first,
                           links[id])}
            /\ resp' = NoResp
  /\ UNCHANGED <<links, nextLinkId, cache, now, recorder, clicks, edits,
                 fingerprints, published, triggered, installs, appEvents,
                 subscribers, received>>
  /\ UNCHANGED <<dvars, cvars>>

\* the INSERT INTO links of a create or duplicate request
InsertLink(p) ==
  /\ p \in pending
  /\ pending' = pending \ {p}
  /\ IF InsertRejected(p.short_code)
       THEN /\ resp' = [op |-> p.op, status |-> 500, link |-> 0,
                        short_code |-> p.short_code,
                        error |-> "unique violation"]
            /\ UNCHANGED <<links, nextLinkId>>
       ELSE /\ nextLinkId \in DOMAIN links
            /\ links' = [links EXCEPT ![nextLinkId] =
                           [p.row EXCEPT !.id = nextLinkId,
                                         !.short_code = p.short_code,
                                         !.is_active = TRUE]]
            /\ nextLinkId' = nextLinkId + 1
            /\ resp' = [op |-> p.op, status |-> 200, link |-> nextLinkId,
                        short_code |-> p.short_code, error |-> ""]
  /\ UNCHANGED <<cache, now, recorder, clicks, edits, fingerprints, published,
                 triggered, installs, appEvents, subscribers, received>>
  /\ UNCHANGED <<dvars, cvars>>

CreateInit == ResolverIdle(MaxCreated)

CreateNext ==
  \/ \E first \in CreateCodes, retry \in CreateCodes \cup {"exhausted"} :
       CheckCode(first, retry)
  \/ \E id \in 1..MaxCreated, first \in CreateCodes,
        retry \in CreateCodes \cup {"exhausted"} :
       CheckDuplicate(id, first, retry)
  \/ \E p \in pending : InsertLink(p)
  \/ \E id \in 1..MaxCreated, data \in [is_active : BOOLEAN] :
       UpdateLink(id, NoUser, data)
  \/ \E id \in 1..MaxCreated : DeleteLink(id, NoUser)

SpecCreate == CreateInit /\ [][CreateNext]_vars

(***************************************************************************)
(* Install attribution: lib/fingerprint and POST /api/sdk/v1/install       *)
(***************************************************************************)
\* bound: the clicks (one per link) the store holds when installs are reported
MaxCandidates == 2
\* bound: the installs reported
MaxInstalls == 1

\* (1000 * 60 * 60) milliseconds, in the seconds of the model's clock
HourSec == 3600

FINGERPRINT_WEIGHTS ==
  [IP_ADDRESS |-> 40, USER_AGENT |-> 30, TIMEZONE |-> 10, LANGUAGE |-> 10,
   SCREEN_RESOLUTION |-> 10]

DEFAULT_ATTRIBUTION_WINDOW_HOURS == 168

CONFIDENCE_THRESHOLD == 70

\* const maxWindowHours = 2160
maxWindowHours == 2160

\* LIMIT 1000
QueryLimit == 1000

\* the first three groups of a dotted address
normalizeIP(ip) == IF ip = <<>> THEN <<>> ELSE SubSeq(ip, 1, 3)

\* ua.match(/(a|b|...)/i): the leftmost token that is one of names, or ""
FirstMatch(ua, names) ==
  LET hits == {i \in 1..Len(ua) : \E p \in names : Includes(ua[i], p)}
  IN IF hits = {} THEN ""
     ELSE ua[CHOOSE i \in hits : \A j \in hits : i <= j]

\* `${platform}|${browser}`.toLowerCase()
normalizeUserAgent(ua) ==
  IF ua = <<>> THEN <<>>
  ELSE <<ToLowerCase(FirstMatch(ua, {"iPhone", "iPad", "Android", "Windows",
                                     "Macintosh", "Linux"})),
         "|",
         ToLowerCase(FirstMatch(ua, {"Chrome", "Safari", "Firefox", "Edge",
                                     "Opera"}))>>

\* language.substring(0, 2).toLowerCase()
LanguagePrefix(language) == ToLowerCase(language[1])

\* a comparison that takes two missing signals for equal ones
calculateConfidenceScoreUnguarded(fingerprint1, fingerprint2) ==
    (IF normalizeIP(fingerprint1.ipAddress) = normalizeIP(fingerprint2.ipAddress)
       THEN FINGERPRINT_WEIGHTS.IP_ADDRESS ELSE 0)
  + (IF normalizeUserAgent(fingerprint1.userAgent)
          = normalizeUserAgent(fingerprint2.userAgent)
       THEN FINGERPRINT_WEIGHTS.USER_AGENT ELSE 0)
  + (IF fingerprint1.timezone = fingerprint2.timezone
       THEN FINGERPRINT_WEIGHTS.TIMEZONE ELSE 0)
  + (IF fingerprint1.language = fingerprint2.language
       THEN FINGERPRINT_WEIGHTS.LANGUAGE ELSE 0)
  + (IF /\ fingerprint1.screenWidth = fingerprint2.screenWidth
        /\ fingerprint1.screenHeight = fingerprint2.screenHeight
       THEN FINGERPRINT_WEIGHTS.SCREEN_RESOLUTION ELSE 0)

\* the score of calculateConfidenceScore's result
calculateConfidenceScore(fingerprint1, fingerprint2) ==
    (IF /\ fingerprint1.ipAddress # <<>> /\ fingerprint2.ipAddress # <<>>
        /\ normalizeIP(fingerprint1.ipAddress) = normalizeIP(fingerprint2.ipAddress)
       THEN FINGERPRINT_WEIGHTS.IP_ADDRESS ELSE 0)
  + (IF /\ fingerprint1.userAgent # <<>> /\ fingerprint2.userAgent # <<>>
        /\ normalizeUserAgent(fingerprint1.userAgent)
             = normalizeUserAgent(fingerprint2.userAgent)
       THEN FINGERPRINT_WEIGHTS.USER_AGENT ELSE 0)
  + (IF /\ fingerprint1.timezone # "" /\ fingerprint2.timezone # ""
        /\ fingerprint1.timezone = fingerprint2.timezone
       THEN FINGERPRINT_WEIGHTS.TIMEZONE ELSE 0)
  + (IF /\ fingerprint1.language # <<>> /\ fingerprint2.language # <<>>
        /\ LanguagePrefix(fingerprint1.language) = LanguagePrefix(fingerprint2.language)
       THEN FINGERPRINT_WEIGHTS.LANGUAGE ELSE 0)
  + (IF /\ fingerprint1.screenWidth # 0 /\ fingerprint1.screenHeight # 0
        /\ fingerprint2.screenWidth # 0 /\ fingerprint2.screenHeight # 0
        /\ fingerprint1.screenWidth = fingerprint2.screenWidth
        /\ fingerprint1.screenHeight = fingerprint2.screenHeight
       THEN FINGERPRINT_WEIGHTS.SCREEN_RESOLUTION ELSE 0)

\* the matchedFactors of calculateConfidenceScore's result
matchedFactors(fingerprint1, fingerprint2) ==
  {f \in {"ip", "user_agent", "timezone", "language", "screen"} :
     \/ /\ f = "ip"
        /\ fingerprint1.ipAddress # <<>> /\ fingerprint2.ipAddress # <<>>
        /\ normalizeIP(fingerprint1.ipAddress) = normalizeIP(fingerprint2.ipAddress)
     \/ /\ f = "user_agent"
        /\ fingerprint1.userAgent # <<>> /\ fingerprint2.userAgent # <<>>
        /\ normalizeUserAgent(fingerprint1.userAgent)
             = normalizeUserAgent(fingerprint2.userAgent)
     \/ /\ f = "timezone"
        /\ fingerprint1.timezone # "" /\ fingerprint2.timezone # ""
        /\ fingerprint1.timezone = fingerprint2.timezone
     \/ /\ f = "language"
        /\ fingerprint1.language # <<>> /\ fingerprint2.language # <<>>
        /\ LanguagePrefix(fingerprint1.language) = LanguagePrefix(fingerprint2.language)
     \/ /\ f = "screen"
        /\ fingerprint1.screenWidth # 0 /\ fingerprint1.screenHeight # 0
        /\ fingerprint2.screenWidth # 0 /\ fingerprint2.screenHeight # 0
        /\ fingerprint1.screenWidth = fingerprint2.screenWidth
        /\ fingerprint1.screenHeight = fingerprint2.screenHeight}

\* one call of calculateConfidenceScore with the arguments drawn
Score ==
  /\ resp.op = "scoring"
  /\ resp' = [op |-> "score", fingerprint1 |-> resp.fingerprint1,
              fingerprint2 |-> resp.fingerprint2,
              score |-> calculateConfidenceScore(resp.fingerprint1,
                                                 resp.fingerprint2),
              matchedFactors |-> matchedFactors(resp.fingerprint1,
                                                resp.fingerprint2)]
  /\ UNCHANGED <<links, nextLinkId, cache, now, recorder, clicks, edits,
                 fingerprints, published, triggered, installs>>
  /\ UNCHANGED bvars
  /\ UNCHANGED <<dvars, cvars>>

\* fingerprints of an install: every signal given or missing, and a screen
\* with a width but no height
InstallPrints ==
  {[ipAddress |-> ip, userAgent |-> ua, timezone |-> tz, language |-> lang,
    screenWidth |-> screen[1], screenHeight |-> screen[2]] :
     ip \in {<<>>, HomeIp}, ua \in {<<>>, IPhoneSafari},
     tz \in {"", PhoneSignals.timezone}, lang \in {<<>>, PhoneSignals.language},
     screen \in {<<0, 0>>, <<1170, 2532>>, <<1170, 0>>}}

\* fingerprints of a click: every signal missing, the same, the same after
\* normalisation, or another
ClickPrints ==
  {[ipAddress |-> ip, userAgent |-> ua, timezone |-> tz, language |-> lang,
    screenWidth |-> screen[1], screenHeight |-> screen[2]] :
     ip \in {<<>>, HomeIp, NeighbourIp, OtherIp},
     ua \in {<<>>, IPhoneSafari, IPhoneGmail, AndroidChrome},
     tz \in {"", PhoneSignals.timezone, "Europe/Berlin"},
     lang \in {<<>>, PhoneSignals.language, <<"EN", "-GB">>, <<"de", "-DE">>},
     screen \in {<<0, 0>>, <<1170, 2532>>, <<1170, 2000>>}}

\* a server that stores nothing, about to make a call of a function
Calling(calls) ==
  /\ links = [i \in LinkIds |-> NoLink]
  /\ nextLinkId = 1
  /\ cache = [k \in CacheKeys |-> NoEntry]
  /\ now = 0
  /\ recorder = <<>>
  /\ clicks = {}
  /\ fingerprints = {}
  /\ published = {}
  /\ triggered = {}
  /\ installs = <<>>
  /\ appEvents = {}
  /\ subscribers = <<>>
  /\ received = {}
  /\ pending = {}
  /\ edits = 0
  /\ resp \in calls
  /\ whResp = NoWhResp
  /\ DispatcherIdle

ScoreInit ==
  Calling({[op |-> "scoring", fingerprint1 |-> fingerprint1,
            fingerprint2 |-> fingerprint2] :
             fingerprint1 \in InstallPrints, fingerprint2 \in ClickPrints})

ScoreNext == Score

SpecScore == ScoreInit /\ [][ScoreNext]_vars

\* the rows of click_events JOIN device_fingerprints JOIN links WHERE
\* clicked_at >= cutoffTime
CandidateRows ==
  {[click_id |-> c.id, link_id |-> c.link_id, clicked_at |-> c.clicked_at,
    attribution_window_hours |-> links[c.link_id].attribution_window_hours,
    data |-> f.data] :
     <<c, f>> \in {cf \in clicks \X fingerprints :
                     /\ cf[2].click_id = cf[1].id
                     /\ cf[1].link_id \in DOMAIN links
                     /\ links[cf[1].link_id] # NoLink
                     /\ cf[1].clicked_at >= now - maxWindowHours * HourSec}}

\* a result set that comes oldest click first
OldestFirst(rows) ==
  {s \in [1..Cardinality(rows) -> rows] :
     /\ \A i, j \in DOMAIN s : i # j => s[i] # s[j]
     /\ \A i, j \in DOMAIN s : i < j => s[i].clicked_at <= s[j].clicked_at}

\* ORDER BY ce.clicked_at DESC: the orders the store may return rows in
NewestFirst(rows) ==
  {s \in [1..Cardinality(rows) -> rows] :
     /\ \A i, j \in DOMAIN s : i # j => s[i] # s[j]
     /\ \A i, j \in DOMAIN s : i < j => s[i].clicked_at >= s[j].clicked_at}

Limited(rows) ==
  IF Len(rows) > QueryLimit THEN SubSeq(rows, 1, QueryLimit) ELSE rows

\* a window that is the default whatever the link says
DefaultWindowHours(row) == DEFAULT_ATTRIBUTION_WINDOW_HOURS

\* row.attribution_window_hours || DEFAULT_ATTRIBUTION_WINDOW_HOURS
linkWindowHours(row) ==
  IF row.attribution_window_hours # 0 THEN row.attribution_window_hours
  ELSE DEFAULT_ATTRIBUTION_WINDOW_HOURS

\* a best-match test without the threshold
IsBetterAnyScore(score, highestScore) == score > highestScore

\* score > highestScore && score >= CONFIDENCE_THRESHOLD
IsBetter(score, highestScore) ==
  score > highestScore /\ score >= CONFIDENCE_THRESHOLD

NoMatch == [clickId |-> 0, linkId |-> 0, confidenceScore |-> 0]

\* the for loop of matchInstallToClick from row i on
RECURSIVE ScanRows(_, _, _, _, _)
ScanRows(rows, i, installFingerprint, bestMatch, highestScore) ==
  IF i > Len(rows) THEN bestMatch
  ELSE LET row == rows[i]
           score == calculateConfidenceScore(installFingerprint, row.data)
       IN IF now - row.clicked_at > linkWindowHours(row) * HourSec
            THEN ScanRows(rows, i + 1, installFingerprint, bestMatch, highestScore)
          ELSE IF IsBetter(score, highestScore)
            THEN ScanRows(rows, i + 1, installFingerprint,
                          [clickId |-> row.click_id, linkId |-> row.link_id,
                           confidenceScore |-> score], score)
          ELSE ScanRows(rows, i + 1, installFingerprint, bestMatch, highestScore)

\* rows is the result of the query; the parameter attributionWindowHours is
\* read nowhere in the function
matchInstallToClick(installFingerprint, attributionWindowHours, rows) ==
  IF Len(rows) = 0 THEN NoMatch
  ELSE ScanRows(rows, 1, installFingerprint, NoMatch, 0)

\* the fingerprint an SDK reports at first launch
InstallPrint ==
  [ipAddress |-> HomeIp, userAgent |-> IPhoneSafari,
   timezone |-> PhoneSignals.timezone, language |-> PhoneSignals.language,
   screenWidth |-> PhoneSignals.screenWidth,
   screenHeight |-> PhoneSignals.screenHeight]

\* body.attributionWindowHours: one hour, or absent (the default)
CallerWindows == {1, DEFAULT_ATTRIBUTION_WINDOW_HOURS}

\* the columns of links once initializeDatabase has run: CREATE TABLE and the
\* migrations, which rename ios_url and android_url to *_app_store_url
LinksColumns ==
  {"id", "user_id", "template_id", "short_code", "original_url", "title",
   "description", "ios_app_store_url", "android_app_store_url",
   "web_fallback_url", "app_scheme", "ios_universal_link", "android_app_link",
   "deep_link_path", "deep_link_parameters", "utm_parameters",
   "targeting_rules", "og_title", "og_description", "og_image_url", "og_type",
   "attribution_window_hours", "is_active", "expires_at", "created_at",
   "updated_at"}

\* the columns recordInstallEvent selects for the deep-link payload
DeepLinkColumns ==
  {"short_code", "original_url", "ios_url", "android_url", "web_fallback_url",
   "utm_parameters", "targeting_rules"}

\* the columns of links the attribution endpoint selects
AttributionColumns ==
  {"short_code", "original_url", "ios_url", "android_url", "web_fallback_url",
   "utm_parameters", "deep_link_parameters"}

\* a query naming a column the table does not have is rejected by the store
Selects(columns) == columns \subseteq LinksColumns

\* the hash is taken over the raw components, missing ones as ''; the model
\* keeps the components
generateFingerprintHash(data) ==
  <<data.ipAddress, data.userAgent, data.timezone, data.language,
    data.screenWidth, data.screenHeight>>

\* deepLinkData = {}
EmptyData == [shortCode |-> "", confidenceScore |-> 0]

\* the payload composed from the matched link
DeepLinkData(link, match) ==
  [shortCode |-> link.short_code, confidenceScore |-> match.confidenceScore]

\* the row INSERT INTO install_events writes (0 is NULL); matched keeps what
\* matchInstallToClick returned, link_id and click_id being nulled by deletes
InstallRow(installId, match, fingerprintData, attributionWindowHours) ==
  [id |-> installId, link_id |-> match.linkId, click_id |-> match.clickId,
   fingerprint_hash |-> generateFingerprintHash(fingerprintData),
   confidence_score |-> match.confidenceScore,
   attribution_window_hours |-> attributionWindowHours,
   installed_at |-> now, data |-> fingerprintData,
   deep_link_data |-> EmptyData, deep_link_retrieved |-> FALSE,
   matched |-> match]

\* a route that reports every install as attributed
InstallResponseAttributed(installId, match, deepLinkData, webhookLookup) ==
  [op |-> "install", status |-> 200, installId |-> installId,
   attributed |-> TRUE, confidenceScore |-> match.confidenceScore,
   deepLinkData |-> deepLinkData, webhookLookup |-> webhookLookup]

\* reply.status(200) of the install route; webhookLookup tells how the lookup
\* of the owner's webhooks went
InstallResponse(installId, match, deepLinkData, webhookLookup) ==
  [op |-> "install", status |-> 200, installId |-> installId,
   attributed |-> match # NoMatch, confidenceScore |-> match.confidenceScore,
   deepLinkData |-> deepLinkData, webhookLookup |-> webhookLookup]

\* the catch of the install route; installId names the row already inserted
InstallError(installId) ==
  [op |-> "install", status |-> 500, installId |-> installId,
   attributed |-> FALSE, confidenceScore |-> 0,
   deepLinkData |-> EmptyData, webhookLookup |-> "none"]

\* POST /api/sdk/v1/install: recordInstallEvent matches the fingerprint,
\* inserts the install_events row and, for a match, reads the link for the
\* payload, updates the row and looks the owner's webhooks up
ReportInstall(fingerprintData, attributionWindowHours, lookupFails) ==
  /\ Len(installs) < MaxInstalls
  /\ \E rows \in NewestFirst(CandidateRows) :
       LET match == matchInstallToClick(fingerprintData, attributionWindowHours,
                                        Limited(rows))
           installId == Len(installs) + 1
           row == InstallRow(installId, match, fingerprintData,
                             attributionWindowHours)
       IN IF match = NoMatch
            THEN /\ installs' = Append(installs, row)
                 /\ resp' = InstallResponse(installId, match, EmptyData, "none")
                 /\ UNCHANGED triggered
          ELSE IF ~Selects(DeepLinkColumns)
            THEN /\ installs' = Append(installs, row)
                 /\ resp' = InstallError(installId)
                 /\ UNCHANGED triggered
          ELSE LET deepLinkData == DeepLinkData(links[match.linkId], match)
                   hooks == ActiveWebhooksOf(links[match.linkId].user_id)
               IN /\ installs' = Append(installs,
                       [row EXCEPT !.deep_link_data = deepLinkData,
                                   !.deep_link_retrieved = TRUE])
                  /\ triggered' =
                       IF lookupFails \/ hooks = {} THEN triggered
                       ELSE triggered \cup
                              {Triggering("install_event", installId, hooks,
                                          [id |-> installId,
                                           linkId |-> match.linkId])}
                  /\ resp' = InstallResponse(installId, match, deepLinkData,
                               IF lookupFails THEN "failed" ELSE "ok")
  /\ UNCHANGED <<links, nextLinkId, cache, now, recorder, clicks, edits,
                 fingerprints, published>>
  /\ UNCHANGED bvars
  /\ UNCHANGED <<dvars, cvars>>

\* the install rows of one fingerprint that ORDER BY installed_at DESC LIMIT 1
\* can return
LatestInstalls(fingerprint) ==
  {n \in DOMAIN installs :
     /\ installs[n].fingerprint_hash = fingerprint
     /\ \A m \in DOMAIN installs :
          installs[m].fingerprint_hash = fingerprint
            => installs[m].installed_at <= installs[n].installed_at}

\* GET /api/sdk/v1/attribution/:fingerprint
GetAttribution(fingerprint) ==
  /\ IF ~Selects(AttributionColumns)
       THEN resp' = [op |-> "attribution", status |-> 500,
                     fingerprint |-> fingerprint, attributed |-> FALSE,
                     clickId |-> 0, linkId |-> 0]
     ELSE IF LatestInstalls(fingerprint) = {}
       THEN resp' = [op |-> "attribution", status |-> 404,
                     fingerprint |-> fingerprint, attributed |-> FALSE,
                     clickId |-> 0, linkId |-> 0]
     ELSE \E n \in LatestInstalls(fingerprint) :
            resp' = [op |-> "attribution", status |-> 200,
                     fingerprint |-> fingerprint,
                     attributed |-> installs[n].link_id # 0,
                     clickId |-> installs[n].click_id,
                     linkId |-> installs[n].link_id]
  /\ UNCHANGED <<links, nextLinkId, cache, now, recorder, clicks, edits,
                 fingerprints, published, triggered, installs>>
  /\ UNCHANGED bvars
  /\ UNCHANGED <<dvars, cvars>>

\* bound: the in-app events the SDK reports
MaxTracked == 1

\* POST /api/sdk/v1/event: the event row is inserted, then the webhooks of
\* the link's owner are looked up inside the route's try and handed to
\* triggerWebhooks in a setImmediate
TrackEvent(installId, lookupFails) ==
  /\ Cardinality(appEvents) < MaxTracked
  /\ IF installId \notin DOMAIN installs
       THEN /\ resp' = [op |-> "event", status |-> 404, eventId |-> 0,
                        webhookLookup |-> "none"]
            /\ UNCHANGED <<appEvents, triggered>>
     ELSE LET eventId == Cardinality(appEvents) + 1
              install == installs[installId]
          IN /\ appEvents' = appEvents \cup
                               {[id |-> eventId, install_id |-> installId]}
             /\ IF install.link_id = 0
                  THEN /\ resp' = [op |-> "event", status |-> 200,
                                   eventId |-> eventId, webhookLookup |-> "none"]
                       /\ UNCHANGED triggered
                ELSE IF lookupFails
                  THEN /\ resp' = [op |-> "event", status |-> 500,
                                   eventId |-> eventId, webhookLookup |-> "failed"]
                       /\ UNCHANGED triggered
                ELSE LET hooks == ActiveWebhooksOf(links[install.link_id].user_id)
                     IN /\ triggered' =
                             IF hooks = {} THEN triggered
                             ELSE triggered \cup
                                    {Triggering("conversion_event", eventId, hooks,
                                                [eventId |-> eventId,
                                                 installId |-> installId,
                                                 linkId |-> install.link_id])}
                        /\ resp' = [op |-> "event", status |-> 200,
                                    eventId |-> eventId, webhookLookup |-> "ok"]
  /\ UNCHANGED <<links, nextLinkId, cache, now, recorder, clicks, edits,
                 fingerprints, published, installs, subscribers, received,
                 pending>>
  /\ UNCHANGED <<dvars, cvars>>

\* the requests whose clicks the store holds: the reporting device itself, the
\* same device behind a neighbour address with no signals, and the same
\* device on another network
AttributionRequests ==
  {[country |-> "US", ua |-> ips[2], language |-> "en", ip |-> ips[1],
    fp |-> ips[3]] :
     ips \in {<<HomeIp, IPhoneSafari, PhoneSignals>>,
              <<NeighbourIp, IPhoneGmail, NoSignals>>,
              <<OtherIp, IPhoneSafari, PhoneSignals>>}}

\* attributionWindowHours of the links, in hours
LinkWindows == {1, 2}

\* how long ago the clicks were recorded, in seconds
ClickAges == {HourSec \div 2, 3 * (HourSec \div 2)}

LinkCodes == <<"c1", "c2", "c3">>

\* MaxCandidates links, each with one click that went through the recorder
ClicksRecorded(requests, ages, windows) ==
  /\ now = 2 * HourSec
  /\ \E reqs \in [1..MaxCandidates -> requests],
        age \in [1..MaxCandidates -> ages],
        window \in [1..MaxCandidates -> windows] :
       /\ links = [i \in 1..MaxCandidates |->
                     StoredLink(i, LinkCodes[i], OriginOnly, window[i])]
       /\ recorder = [i \in 1..MaxCandidates |->
                        [link_id |-> i, user_id |-> "u1", op |-> "redirect",
                         reason |-> "original_url", req |-> reqs[i],
                         state |-> "done",
                         redirectUrl |-> EventRedirectUrl(links[i],
                                           detectDevice(reqs[i].ua)),
                         sent |-> [kind |-> "redirect",
                                   location |-> FinalUrl(
                                     SelectDestination(links[i],
                                       detectDevice(reqs[i].ua)), links[i])]]]
       /\ clicks = {[id |-> i, link_id |-> i, clicked_at |-> 2 * HourSec - age[i]] :
                      i \in 1..MaxCandidates}
       /\ fingerprints = {[click_id |-> i, data |-> RequestFingerprint(reqs[i])] :
                            i \in 1..MaxCandidates}
  /\ published = {[eventId |-> i, linkId |-> i, userId |-> "u1",
                   redirectUrl |-> [url |-> <<OriginOnly.original_url>>,
                                    query |-> NoParams],
                   redirectReason |-> "original_url"] : i \in 1..MaxCandidates}
  /\ triggered = {}
  /\ installs = <<>>
  /\ appEvents = {}
  /\ subscribers = <<>>
  /\ received = {}
  /\ pending = {}
  /\ nextLinkId = MaxCandidates + 1
  /\ cache = [k \in CacheKeys |-> NoEntry]
  /\ edits = 0
  /\ resp = NoResp
  /\ whResp = NoWhResp

AttributionInit ==
  /\ ClicksRecorded(AttributionRequests, ClickAges, LinkWindows)
  /\ DispatcherIdle

AttributionNext ==
  \/ \E attributionWindowHours \in CallerWindows :
       ReportInstall(InstallPrint, attributionWindowHours, FALSE)
  \/ \E id \in 1..MaxCandidates : DeleteLink(id, NoUser)

SpecAttribution == AttributionInit /\ [][AttributionNext]_vars

\* the webhook of owner u1 for installs and conversions
InstallWebhook ==
  [OwnerWebhook EXCEPT !.events = {"install_event", "conversion_event"}]

\* the clicks are half an hour old, the links have the default window, and
\* owner u1 has a webhook
InstallInit ==
  /\ ClicksRecorded(AttributionRequests, {HourSec \div 2}, {DefaultLinkWindow})
  /\ webhooks = <<InstallWebhook>>
  /\ delivery = <<>>
  /\ caller = "idle"
  /\ testResp = NoTestResp

InstallNext ==
  \/ \E lookupFails \in BOOLEAN :
       ReportInstall(InstallPrint, DEFAULT_ATTRIBUTION_WINDOW_HOURS, lookupFails)
  \/ GetAttribution(generateFingerprintHash(InstallPrint))
  \/ \E installId \in 1..MaxInstalls, lookupFails \in BOOLEAN :
       TrackEvent(installId, lookupFails)
  \/ \E id \in 1..MaxCandidates : DeleteLink(id, NoUser)

SpecInstall == InstallInit /\ [][InstallNext]_vars

(***************************************************************************)
(* The click event bus (lib/event-emitter) and its WebSocket listener      *)
(***************************************************************************)
\* a listener of owner u1, one of owner u1 and link 2, and one that throws
BusListeners ==
  {SocketListener("u1", 0), SocketListener("u1", 2), ThrowingListener}

\* link 1 of owner u1 and link 2 of owner u2, and nobody listening yet
BusInit ==
  /\ links = <<StoredLink(1, "c1", OriginOnly, DefaultLinkWindow),
               [StoredLink(2, "c2", OriginOnly, DefaultLinkWindow)
                  EXCEPT !.user_id = "u2"]>>
  /\ nextLinkId = 3
  /\ cache = [k \in CacheKeys |-> NoEntry]
  /\ now = 0
  /\ recorder = <<>>
  /\ clicks = {}
  /\ fingerprints = {}
  /\ published = {}
  /\ triggered = {}
  /\ installs = <<>>
  /\ appEvents = {}
  /\ subscribers = <<>>
  /\ received = {}
  /\ pending = {}
  /\ edits = 0
  /\ resp = NoResp
  /\ whResp = NoWhResp
  /\ DispatcherIdle

BusNext ==
  \/ \E sub \in BusListeners : Subscribe(sub)
  \/ \E i \in 1..MaxSubscribers : Unsubscribe(i)
  \/ \E shortCode \in {"c1", "c2"}, req \in ReuseRequests :
       /\ HandleRedirect(shortCode, NoSlug, req, FALSE, FALSE, FALSE)
       /\ Len(recorder') <= MaxServed
  \/ \E n \in 1..MaxClicks : RecordClick(n)
  \/ \E n \in 1..MaxClicks : StoreFingerprint(n, FALSE)
  \/ \E n \in 1..MaxClicks : TriggerClickWebhooks(n, FALSE)

SpecBus == BusInit /\ [][BusNext]_vars

(***************************************************************************)
(* The background click recorder of the two resolvers                      *)
(***************************************************************************)
\* bound: the click recordings SpecRecorder schedules
MaxRecorded == 1

\* deep-link parameters on the plain link, and on a link with a URI scheme
Tagged == [OriginOnly EXCEPT !.deep_link_parameters = <<"ref=42">>]
SchemeTagged == [Tagged EXCEPT !.app_scheme = "myapp", !.deep_link_path = "/p/42"]

\* an iPhone in Safari and in the Gmail in-app browser, with the signals the
\* SDK reports at install
RecorderRequests ==
  [country : {"US"}, ua : {IPhoneSafari, IPhoneGmail}, language : {"en"},
   ip : {HomeIp}, fp : {PhoneSignals}]

\* the second webhook next to the click webhook of owner u1: one of another
\* owner, one without owner, an inactive one, and one for other events
OtherWebhooks ==
  {[OwnerWebhook EXCEPT !.user_id = "u2", !.events = WebhookEvents],
   [OwnerWebhook EXCEPT !.user_id = NoUser, !.events = WebhookEvents],
   [OwnerWebhook EXCEPT !.is_active = FALSE, !.events = WebhookEvents],
   [OwnerWebhook EXCEPT !.events = {"install_event", "conversion_event"}]}

\* one link, two webhooks, and the listeners on the bus
RecorderIdle(owners, destinations, others, listeners) ==
  /\ \E owner \in owners, dests \in destinations :
       links = <<[StoredLink(1, "c1", dests, DefaultLinkWindow)
                    EXCEPT !.user_id = owner]>>
  /\ nextLinkId = 2
  /\ cache = [k \in CacheKeys |-> NoEntry]
  /\ now = 0
  /\ recorder = <<>>
  /\ clicks = {}
  /\ fingerprints = {}
  /\ published = {}
  /\ triggered = {}
  /\ installs = <<>>
  /\ appEvents = {}
  /\ subscribers \in listeners
  /\ received = {}
  /\ pending = {}
  /\ edits = 0
  /\ resp = NoResp
  /\ whResp = NoWhResp
  /\ \E other \in others :
       webhooks = [w \in WebhookIds |-> IF w = "w1" THEN OwnerWebhook ELSE other]
  /\ delivery = [w \in WebhookIds |-> IdleDelivery]
  /\ caller = "idle"
  /\ testResp = NoTestResp

\* a link owned by u1 or by nobody, and at most one listener on the bus
RecorderInit ==
  RecorderIdle({"u1", NoUser}, {OriginOnly, Tagged, SchemeTagged},
               {[OwnerWebhook EXCEPT !.user_id = "u2"]},
               {<<>>, <<SocketListener("u1", 0)>>, <<ThrowingListener>>})

RecorderNext ==
  \/ \E req \in RecorderRequests :
       /\ HandleRedirect("c1", NoSlug, req, FALSE, FALSE, FALSE)
       /\ Len(recorder') <= MaxRecorded
  \/ \E req \in RecorderRequests :
       /\ HandleResolve("c1", NoSlug, req, FALSE, FALSE, FALSE)
       /\ Len(recorder') <= MaxRecorded
  \/ \E n \in 1..MaxClicks : RecordClick(n)
  \/ \E n \in 1..MaxClicks, throws \in BOOLEAN : StoreFingerprint(n, throws)
  \/ \E n \in 1..MaxClicks, lookupFails \in BOOLEAN :
       TriggerClickWebhooks(n, lookupFails)
  \/ DeleteLink(1, NoUser)

SpecRecorder == RecorderInit /\ [][RecorderNext]_vars

\* the event loop runs every setImmediate callback, and the store answers:
\* a recording that is scheduled does get to its click insert
RecorderRuns == \A n \in 1..MaxClicks : WF_vars(RecordClick(n))

\* requests for a code whose link is created, deleted and created again, one
\* recording at a time
LiveNext ==
  \/ \E dests \in {OriginOnly, WebFallback} :
       CreateLink("c1", "exhausted", "u1", NoTemplate, NoExpiry, NoRules,
                  dests, DefaultLinkWindow)
  \/ \E id \in 1..MaxReuse : DeleteLink(id, NoUser)
  \/ \E req \in ReuseRequests :
       /\ HandleRedirect("c1", NoSlug, req, TRUE, FALSE, FALSE)
       /\ Len(recorder') <= MaxRecorded
  \/ \E req \in ReuseRequests :
       /\ HandleResolve("c1", NoSlug, req, TRUE, FALSE, FALSE)
       /\ Len(recorder') <= MaxRecorded
  \/ \E n \in 1..MaxClicks : RecordClick(n)
  \/ \E n \in 1..MaxClicks : StoreFingerprint(n, FALSE)
  \/ \E n \in 1..MaxClicks : TriggerClickWebhooks(n, FALSE)

SpecRecorderLive == ReuseInit /\ [][LiveNext]_vars /\ RecorderRuns

\* every kind of second webhook, for clicks, installs and conversions
OwnersInit ==
  RecorderIdle({"u1", NoUser}, {OriginOnly}, OtherWebhooks, {<<>>})

OwnersNext ==
  \/ /\ HandleRedirect("c1", NoSlug,
                       [country |-> "US", ua |-> IPhoneSafari, language |-> "en",
                        ip |-> HomeIp, fp |-> PhoneSignals],
                       FALSE, FALSE, FALSE)
     /\ Len(recorder') <= MaxRecorded
  \/ \E n \in 1..MaxClicks : RecordClick(n)
  \/ \E n \in 1..MaxClicks : StoreFingerprint(n, FALSE)
  \/ \E n \in 1..MaxClicks : TriggerClickWebhooks(n, FALSE)
  \/ ReportInstall(InstallPrint, DEFAULT_ATTRIBUTION_WINDOW_HOURS, FALSE)
  \/ \E installId \in 1..MaxInstalls : TrackEvent(installId, FALSE)

SpecOwners == OwnersInit /\ [][OwnersNext]_vars

(***************************************************************************)
(* Properties                                                              *)
(***************************************************************************)

\* C1: after a link update or delete has completed, neither link:{code} nor
\* link:{slug}:{code} holds an entry of that link written before the change.
CacheInvalidatedOnChange ==
  (resp.op \in {"update", "delete"} /\ resp.status = 200) =>
    \A k \in CacheKeys : CacheGet(k) = NoLink \/ CacheGet(k).id # resp.link

\* C2: a redirect or SDK resolve of the short code of a link that is inactive
\* or past its expires_at answers 404, whatever happened before.
InactiveOrExpiredIs404 ==
  resp.op \in {"redirect", "resolve"} =>
    ((\E r \in Rows :
        /\ r.short_code = resp.code
        /\ (~r.is_active \/ (r.expires_at # NoExpiry /\ now > r.expires_at)))
      => resp.status = 404)

\* C3: the X-LinkForty-Signature, X-LinkForty-Event and X-LinkForty-Event-ID
\* headers of every attempt carry the dispatcher-computed values, never a value
\* of webhook.headers; webhook.headers changes at most the other headers.
LinkFortyHeadersProtected ==
  \A w \in DOMAIN webhooks :
    InFlight(delivery[w]) =>
      \A h \in {"X-LinkForty-Signature", "X-LinkForty-Event", "X-LinkForty-Event-ID"} :
        delivery[w].headers[h] = CoreHeaders(webhooks[w], delivery[w].payload)[h]

\* C4: a delivery makes at least one and at most retry_count POSTs, one after
\* another, none after the first attempt answered 2xx, and an attempt is
\* successful exactly when its status is 2xx.
AttemptsBounded ==
  \A w \in DOMAIN webhooks :
    LET d == delivery[w]
    IN /\ d.pc # "idle" => (d.posts >= 1 /\ d.posts <= webhooks[w].retry_count)
       /\ d.posts = d.attempt
       /\ d.okAt > 0 => (d.pc = "done" /\ d.posts = d.okAt /\ d.ret.success)
       /\ d.last.attemptNumber > 0 =>
            (d.last.success <=> d.last.responseStatus \in 200..299)
       /\ (d.pc = "done" /\ d.ret.success) => d.okAt = d.posts

AttemptsBoundedWitness ==
  \E w \in DOMAIN webhooks :
    /\ webhooks[w].retry_count = 7
    /\ delivery[w].pc = "done"
    /\ delivery[w].okAt = 2
    /\ delivery[w].posts = 2

\* C5: after failed attempt n that is not the last allowed one the dispatcher
\* waits min(1000 * 2^(n-1), 30000) ms; it does not wait after the final
\* allowed attempt nor after a successful one.
BackoffExact ==
  \A w \in DOMAIN webhooks :
    LET d == delivery[w]
    IN /\ \A n \in 1..Len(d.waits) :
            d.waits[n] = IF 1000 * (2 ^ (n - 1)) < 30000
                           THEN 1000 * (2 ^ (n - 1)) ELSE 30000
       /\ Len(d.waits) = CASE d.pc = "idle" -> 0
                           [] d.pc = "sleep" -> d.posts
                           [] OTHER -> d.posts - 1

BackoffExactWitness ==
  \E w \in DOMAIN webhooks :
    /\ delivery[w].pc = "done"
    /\ ~delivery[w].ret.success
    /\ Len(delivery[w].waits) = 6
    /\ delivery[w].waits[6] = 30000
    /\ delivery[w].waits[5] = 16000

\* C6: every attempt ends within timeout_ms of its start, also when the body
\* of the response has not arrived by then.
AttemptWithinTimeout ==
  \A w \in DOMAIN webhooks :
    InFlight(delivery[w]) => delivery[w].elapsed <= webhooks[w].timeout_ms

\* C7: the X-LinkForty-Signature of every attempt is sha256= followed by the
\* HMAC-SHA256, keyed with the webhook's secret, of the body sent in that request.
SignatureMatchesBody ==
  \A w \in DOMAIN webhooks :
    InFlight(delivery[w]) =>
      delivery[w].headers["X-LinkForty-Signature"] =
        <<"sha256=", "hmac-sha256", webhooks[w].secret>> \o delivery[w].body

\* C8: triggerWebhooks returns with every relevant delivery started and none
\* awaited, and a step of one delivery (a failure, a retry, a timeout) leaves
\* every other delivery as it was.
FanoutIndependent ==
  /\ [](caller = "returned" =>
          \A w \in DOMAIN webhooks, v \in DOMAIN webhooks :
            (/\ delivery[w].mode = "trigger"
             /\ webhooks[v].is_active
             /\ delivery[w].payload.event \in webhooks[v].events)
              => delivery[v].posts >= 1)
  /\ [][caller = "returned" =>
          \A w \in DOMAIN webhooks :
            (delivery'[w].pc # delivery[w].pc \/ delivery'[w].posts # delivery[w].posts)
              => \A v \in DOMAIN webhooks \ {w} : delivery'[v] = delivery[v]]_vars

FanoutIndependentWitness ==
  /\ caller = "returned"
  /\ delivery["w1"].pc = "sleep"
  /\ delivery["w1"].last.errorMessage.kind = "timeout"
  /\ delivery["w2"].pc = "done"
  /\ delivery["w2"].ret.success
  /\ delivery["w2"].posts = 1

\* C9: the test endpoint makes exactly one attempt, whatever retry_count is, and
\* answers with that attempt's status, body and error.
TestMakesOneAttempt ==
  caller = "tested" =>
    LET d == delivery[testResp.webhook]
    IN /\ d.posts = 1
       /\ testResp.statusCode = d.last.responseStatus
       /\ testResp.responseBody = d.last.responseBody
       /\ testResp.error = d.last.errorMessage

\* C10 as stated: the responses of list, get-one and update never contain the
\* webhook's secret.
SecretNeverReturned ==
  whResp.op \in {"list", "get", "update"} =>
    \A v \in whResp.rows : "secret" \notin DOMAIN v

\* C10 amended: the list response never contains a secret; get-one and update
\* answer with the whole row, secret included.
SecretNotListed ==
  /\ whResp.op = "list" => \A v \in whResp.rows : "secret" \notin DOMAIN v
  /\ (whResp.op \in {"get", "update"} /\ whResp.status = 200) =>
       \A v \in whResp.rows :
         "secret" \in DOMAIN v /\ v.secret = webhooks[v.id].secret

SecretNotListedWitness ==
  /\ whResp.op = "list"
  /\ Cardinality(whResp.rows) = 2

\* C11: a resolve of a short code that link create returned answers with that
\* same link (the active, unexpired row that now holds the code) and with one
\* of its destinations, whatever was created, deleted and resolved before.
ResolveReturnsCreatedLink ==
  resp.op \in {"redirect", "resolve"} =>
    \A r \in Rows :
      (/\ r.short_code = resp.code
       /\ resp.slug = NoSlug
       /\ r.is_active
       /\ (r.expires_at = NoExpiry \/ r.expires_at > now)
       /\ r.targeting_rules = NoRules)
      => /\ resp.status # 404
         /\ resp.link = r.id
         /\ resp.op = "redirect" =>
              resp.location.url \in {<<r.web_fallback_url>>, <<r.original_url>>}

\* C12: a request that the targeting rules of the link found for it reject (an
\* unknown country included) is answered 404, and the step schedules no click
\* recording and changes no click row, fingerprint row, bus event or webhook
\* hand-over; every such row or event belongs to a scheduled recording.
TargetingRejectsQuietly ==
  /\ [][(/\ resp'.op = "redirect"
         /\ resp'.data # NoLink
         /\ LET rules == resp'.data.targeting_rules
                req == resp'.req
            IN \/ /\ rules.countries # {}
                  /\ \/ req.country = ""
                     \/ ToUpperCase(req.country) \notin
                          {ToUpperCase(c) : c \in rules.countries}
               \/ /\ rules.devices # {}
                  /\ detectDevice(req.ua) \notin rules.devices
               \/ /\ rules.languages # {}
                  /\ \/ req.language = ""
                     \/ ToLowerCase(req.language) \notin
                          {ToLowerCase(l) : l \in rules.languages})
        => /\ resp'.status = 404
           /\ UNCHANGED <<recorder, clicks, fingerprints, published, triggered>>]_vars
  /\ [](/\ \A c \in clicks : c.id \in 1..Len(recorder)
        /\ \A f \in fingerprints : f.click_id \in 1..Len(recorder)
        /\ \A e \in published : e.eventId \in 1..Len(recorder)
        /\ \A t \in triggered : t.event_id \in 1..Len(recorder))

\* an accepted request went through the whole recorder, then a request of
\* unknown country was rejected by the country rule of the link
TargetingRejectSeen ==
  /\ resp.op = "redirect"
  /\ resp.status = 404
  /\ resp.data # NoLink
  /\ resp.data.targeting_rules.countries # {}
  /\ resp.req.country = ""
  /\ triggered # {}
  /\ Len(recorder) = 1

\* C13: no click row belongs to a request whose User-Agent is a social
\* scraper's.
ScraperNeverClicked ==
  \A c \in clicks : ~isSocialScraper(recorder[c.id].req.ua)

DestinationAsWritten ==
  (resp.op = "redirect" /\ resp.status = 302) =>
    LET link == resp.data
        device == detectDevice(resp.req.ua)
        scheme == link.app_scheme # "" /\ link.deep_link_path # ""
        schemeUrl == <<link.app_scheme, "://", link.deep_link_path>>
    IN resp.location.url =
         CASE device = "ios" ->
                IF link.ios_universal_link # "" THEN <<link.ios_universal_link>>
                ELSE IF scheme THEN schemeUrl
                ELSE IF link.ios_app_store_url # "" THEN <<link.ios_app_store_url>>
                ELSE <<link.original_url>>
           [] device = "android" ->
                IF link.android_app_link # "" THEN <<link.android_app_link>>
                ELSE IF scheme THEN schemeUrl
                ELSE IF link.android_app_store_url # ""
                  THEN <<link.android_app_store_url>>
                ELSE <<link.original_url>>
           [] OTHER ->
                IF link.web_fallback_url # "" THEN <<link.web_fallback_url>>
                ELSE <<link.original_url>>

\* C15, amended: the destination is the first present option of the device
\* class, the scheme option being app_scheme, "://" and deep_link_path without
\* its leading slash; the recording scheduled for the request names that option.
DestinationPriority ==
  (resp.op = "redirect" /\ resp.status # 404) =>
    LET link == resp.data
        device == detectDevice(resp.req.ua)
        scheme == link.app_scheme # "" /\ link.deep_link_path # ""
        schemeUrl == <<link.app_scheme, "://",
                       IF link.deep_link_path = "/p/42" THEN "p/42"
                       ELSE link.deep_link_path>>
        first ==
          CASE device = "ios" ->
                 IF link.ios_universal_link # ""
                   THEN <<<<link.ios_universal_link>>, "ios_universal_link">>
                 ELSE IF scheme THEN <<schemeUrl, "app_scheme">>
                 ELSE IF link.ios_app_store_url # ""
                   THEN <<<<link.ios_app_store_url>>, "ios_app_store_url">>
                 ELSE <<<<link.original_url>>, "original_url">>
            [] device = "android" ->
                 IF link.android_app_link # ""
                   THEN <<<<link.android_app_link>>, "android_app_link">>
                 ELSE IF scheme THEN <<schemeUrl, "app_scheme">>
                 ELSE IF link.android_app_store_url # ""
                   THEN <<<<link.android_app_store_url>>, "android_app_store_url">>
                 ELSE <<<<link.original_url>>, "original_url">>
            [] OTHER ->
                 IF link.web_fallback_url # ""
                   THEN <<<<link.web_fallback_url>>, "web_fallback_url">>
                 ELSE <<<<link.original_url>>, "original_url">>
    IN /\ recorder[Len(recorder)].reason = first[2]
       /\ resp.status = 302 => resp.location.url = first[1]

\* an android request for a link with no app link but a scheme and a store
\* page was sent to the scheme URL
SchemeBeatsStore ==
  /\ resp.op = "redirect"
  /\ resp.status = 302
  /\ detectDevice(resp.req.ua) = "android"
  /\ resp.data.android_app_link = ""
  /\ resp.data.android_app_store_url # ""
  /\ resp.location.url = <<"myapp", "://", "p/42">>

\* C16: a request that passes lookup and targeting gets the interstitial
\* exactly when the device is ios, the User-Agent is an in-app browser's and
\* the link has both app_scheme and deep_link_path; otherwise it gets a 302.
InterstitialOnlyInApp ==
  (resp.op = "redirect" /\ resp.status # 404) =>
    LET inApp == /\ detectDevice(resp.req.ua) = "ios"
                 /\ isIOSInAppBrowser(resp.req.ua)
                 /\ resp.data.app_scheme # ""
                 /\ resp.data.deep_link_path # ""
    IN /\ resp.kind = "interstitial" <=> inApp
       /\ resp.kind = "interstitial" => resp.status = 200
       /\ resp.kind # "interstitial" =>
            resp.status = 302 /\ resp.kind = "redirect"

\* an in-app iOS request for a link that also has a universal link got the
\* interstitial with the scheme URL
InterstitialServed ==
  /\ resp.op = "redirect"
  /\ resp.kind = "interstitial"
  /\ resp.data.ios_universal_link # ""
  /\ resp.location.url = <<"myapp", "://", "p/42">>
  /\ isIOSInAppBrowser(resp.req.ua)

\* C17: an install row that carries a link id or a click id, and an install
\* answered attributed=true, has a confidence score of at least 70; when no
\* candidate click scores 70 the install carries neither id and is answered
\* attributed=false.
AttributedAtThreshold ==
  /\ \A n \in DOMAIN installs :
       (installs[n].link_id # 0 \/ installs[n].click_id # 0)
         => installs[n].confidence_score >= 70
  /\ resp.op = "install" =>
       /\ resp.attributed =>
            /\ resp.confidenceScore >= 70
            /\ installs[resp.installId].link_id # 0
            /\ installs[resp.installId].click_id # 0
       /\ (\A r \in CandidateRows :
             calculateConfidenceScore(installs[resp.installId].data, r.data) < 70)
            => /\ ~resp.attributed
               /\ installs[resp.installId].link_id = 0
               /\ installs[resp.installId].click_id = 0

\* an install was attributed with a score of exactly 70 although a younger
\* click scoring 60 was a candidate too
AttributedAtSeventy ==
  /\ resp.op = "install"
  /\ installs[resp.installId].link_id # 0
  /\ installs[resp.installId].confidence_score = 70
  /\ \E r \in CandidateRows, c \in clicks :
       /\ c.id = installs[resp.installId].click_id
       /\ calculateConfidenceScore(InstallPrint, r.data) = 60
       /\ r.clicked_at > c.clicked_at

\* C18: the click of an attributed install is, at matching time, no older
\* than the attribution window of the link that click belongs to.
WithinOwnLinkWindow ==
  \A n \in DOMAIN installs :
    installs[n].click_id # 0 =>
      \E c \in clicks :
        /\ c.id = installs[n].click_id
        /\ c.link_id = installs[n].link_id
        /\ links[c.link_id] # NoLink
        /\ installs[n].installed_at - c.clicked_at
             <= links[c.link_id].attribution_window_hours * 3600

\* the install went to a click of score 70 although a click of score 100 was
\* there, too old for its own link's window but not for the window of the
\* link that won
OtherWindowNotBorrowed ==
  /\ resp.op = "install"
  /\ installs[resp.installId].link_id # 0
  /\ \E c \in clicks, d \in CandidateRows :
       /\ c.id = installs[resp.installId].click_id
       /\ d.click_id # c.id
       /\ calculateConfidenceScore(InstallPrint, d.data) = 100
       /\ now - d.clicked_at > d.attribution_window_hours * 3600
       /\ now - d.clicked_at <= links[c.link_id].attribution_window_hours * 3600

\* C19: the click of an attributed install is, at matching time, no older
\* than the attribution window the caller reported the install with.
WithinCallerWindow ==
  \A n \in DOMAIN installs :
    installs[n].click_id # 0 =>
      \A c \in clicks :
        c.id = installs[n].click_id =>
          installs[n].installed_at - c.clicked_at
            <= installs[n].attribution_window_hours * 3600

\* C20: among the candidate clicks inside their link's window, the install goes
\* to one of highest score if that score is at least 70, and to none otherwise;
\* of several candidates of that highest score it goes to one clicked latest.
BestCandidateWins ==
  resp.op = "install" =>
    LET install == installs[resp.installId]
        inWindow == {r \in CandidateRows :
                       now - r.clicked_at <= r.attribution_window_hours * 3600}
        top == {r \in inWindow :
                  \A q \in inWindow :
                    calculateConfidenceScore(install.data, q.data)
                      <= calculateConfidenceScore(install.data, r.data)}
    IN IF \A r \in top : calculateConfidenceScore(install.data, r.data) < 70
         THEN install.click_id = 0 /\ install.link_id = 0 /\ ~resp.attributed
         ELSE \E r \in top :
                /\ install.click_id = r.click_id
                /\ install.link_id = r.link_id
                /\ install.confidence_score
                     = calculateConfidenceScore(install.data, r.data)
                /\ \A q \in top : q.clicked_at <= r.clicked_at

\* two candidates scored the same and the install went to the later click
TieWentToLatest ==
  /\ resp.op = "install"
  /\ installs[resp.installId].confidence_score >= 70
  /\ \E r, q \in CandidateRows :
       /\ r.click_id = installs[resp.installId].click_id
       /\ q.click_id # r.click_id
       /\ calculateConfidenceScore(InstallPrint, q.data)
            = calculateConfidenceScore(InstallPrint, r.data)
       /\ q.clicked_at < r.clicked_at
       /\ now - q.clicked_at <= q.attribution_window_hours * 3600

\* C27: when a click event is published, every listener registered at that
\* time whose filter lets the event through is handed it, whether or not
\* another listener throws.
ThrowerIsolated ==
  [][\A e \in published' \ published :
       \A i \in 1..Len(subscribers) :
         (/\ subscribers[i].on
          /\ subscribers[i].kind = "socket"
          /\ subscribers[i].userId # "" => e.userId = subscribers[i].userId
          /\ subscribers[i].linkId # 0 => e.linkId = subscribers[i].linkId)
         => <<i, e.eventId>> \in received']_vars

\* C28: a client is handed a click event only when the event is being
\* published, its listener is still registered at that time, and every filter
\* field it gave equals the event's field.
FilteredAndCancellable ==
  [][\A d \in received' \ received :
       /\ d[1] \in 1..Len(subscribers)
       /\ subscribers[d[1]].on
       /\ \E e \in published' \ published :
            /\ e.eventId = d[2]
            /\ subscribers[d[1]].userId # "" => e.userId = subscribers[d[1]].userId
            /\ subscribers[d[1]].linkId # 0 => e.linkId = subscribers[d[1]].linkId]_vars

\* a click of owner u1 on link 1 reached the listener of owner u1, but neither
\* the listener of owner u1 and link 2 nor a cancelled listener
FilterSeen ==
  \E e \in published, i, j \in 1..Len(subscribers) :
    /\ e.userId = "u1" /\ e.linkId = 1
    /\ subscribers[i].userId = "u1" /\ subscribers[i].linkId = 0
    /\ <<i, e.eventId>> \in received
    /\ \/ /\ subscribers[j].userId = "u1" /\ subscribers[j].linkId = 2
          /\ subscribers[j].on
       \/ /\ subscribers[j].kind = "socket" /\ subscribers[j].linkId = 0
          /\ ~subscribers[j].on
    /\ <<j, e.eventId>> \notin received

\* C21: every install report appends exactly one install row and touches no
\* other; when no candidate click inside its link's window scores 70, the row
\* has no link id, no click id and no score, and the answer is 200 with
\* attributed=false, confidenceScore 0 and an empty deepLinkData.
InstallAlwaysRecorded ==
  [][resp'.op = "install" =>
       /\ Len(installs') = Len(installs) + 1
       /\ \A n \in DOMAIN installs : installs'[n] = installs[n]
       /\ resp'.installId = Len(installs')
       /\ (\A r \in CandidateRows :
             now - r.clicked_at <= r.attribution_window_hours * 3600
               => calculateConfidenceScore(installs'[Len(installs')].data, r.data) < 70)
            => /\ installs'[Len(installs')].link_id = 0
               /\ installs'[Len(installs')].click_id = 0
               /\ installs'[Len(installs')].confidence_score = 0
               /\ resp'.status = 200
               /\ ~resp'.attributed
               /\ resp'.confidenceScore = 0
               /\ resp'.deepLinkData.shortCode = ""]_vars

\* an install was answered as organic although a click scoring 60 was a
\* candidate
OrganicInstallSeen ==
  /\ resp.op = "install"
  /\ resp.status = 200
  /\ ~resp.attributed
  /\ installs[resp.installId].link_id = 0
  /\ \E r \in CandidateRows :
       calculateConfidenceScore(installs[resp.installId].data, r.data) = 60

\* C22: the attribution endpoint, asked for the fingerprint of an install that
\* was matched to a click, answers 200 with attributed=true and the click and
\* link of that match.
AttributionRepeatsInstall ==
  resp.op = "attribution" =>
    \A n \in DOMAIN installs :
      (installs[n].fingerprint_hash = resp.fingerprint
         /\ installs[n].matched.clickId # 0)
        => /\ resp.status = 200
           /\ resp.attributed
           /\ resp.clickId = installs[n].matched.clickId
           /\ resp.linkId = installs[n].matched.linkId

\* C23: an install matched to a click is answered 200 with attributed=true and
\* a payload whose shortCode is that of the click's link, and its row holds the
\* same payload with retrieved=true; an install matched to no click is
\* answered with an empty payload and its row never holds one.
PayloadFollowsMatch ==
  /\ resp.op = "install" =>
       IF installs[resp.installId].link_id # 0
         THEN /\ resp.status = 200
              /\ resp.attributed
              /\ resp.deepLinkData.shortCode
                   = links[installs[resp.installId].link_id].short_code
              /\ installs[resp.installId].deep_link_data = resp.deepLinkData
              /\ installs[resp.installId].deep_link_retrieved
         ELSE resp.deepLinkData.shortCode = ""
  /\ \A n \in DOMAIN installs :
       installs[n].matched.clickId = 0
         => /\ ~installs[n].deep_link_retrieved
            /\ installs[n].deep_link_data.shortCode = ""

\* C24: an install or in-app event request whose webhook lookup fails is
\* answered 200 all the same, and the row it wrote is in the store.
WebhookFailureHarmless ==
  [][(resp'.op \in {"install", "event"} /\ resp'.webhookLookup = "failed") =>
       /\ resp'.status = 200
       /\ resp'.op = "install" => resp'.installId \in DOMAIN installs'
       /\ resp'.op = "event" => \E e \in appEvents' : e.id = resp'.eventId]_vars

\* C25: the confidence score is the sum of the weights (IP 40, user agent 30,
\* timezone 10, language 10, screen 10) of exactly the factors reported as
\* matched; a signal missing on either side is not a matched factor; the score
\* lies between 0 and 100.
ScoreIsSumOfMatched ==
  resp.op = "score" =>
    /\ resp.score = (IF "ip" \in resp.matchedFactors THEN 40 ELSE 0)
                  + (IF "user_agent" \in resp.matchedFactors THEN 30 ELSE 0)
                  + (IF "timezone" \in resp.matchedFactors THEN 10 ELSE 0)
                  + (IF "language" \in resp.matchedFactors THEN 10 ELSE 0)
                  + (IF "screen" \in resp.matchedFactors THEN 10 ELSE 0)
    /\ (resp.fingerprint1.ipAddress = <<>> \/ resp.fingerprint2.ipAddress = <<>>)
         => "ip" \notin resp.matchedFactors
    /\ (resp.fingerprint1.userAgent = <<>> \/ resp.fingerprint2.userAgent = <<>>)
         => "user_agent" \notin resp.matchedFactors
    /\ (resp.fingerprint1.timezone = "" \/ resp.fingerprint2.timezone = "")
         => "timezone" \notin resp.matchedFactors
    /\ (resp.fingerprint1.language = <<>> \/ resp.fingerprint2.language = <<>>)
         => "language" \notin resp.matchedFactors
    /\ (\/ resp.fingerprint1.screenWidth = 0 \/ resp.fingerprint1.screenHeight = 0
        \/ resp.fingerprint2.screenWidth = 0 \/ resp.fingerprint2.screenHeight = 0)
         => "screen" \notin resp.matchedFactors
    /\ resp.score >= 0
    /\ resp.score <= 100

\* two fingerprints scored 80: address, user agent and language matched, the
\* click had no timezone and the install no screen height
PartialScoreSeen ==
  /\ resp.op = "score"
  /\ resp.score = 80
  /\ resp.matchedFactors = {"ip", "user_agent", "language"}
  /\ resp.fingerprint1.timezone # "" /\ resp.fingerprint2.timezone = ""
  /\ resp.fingerprint1.screenHeight = 0 /\ resp.fingerprint2.screenHeight # 0

\* C30: a request is classified ios when its User-Agent contains iphone, ipad
\* or ipod in any letter case, else android when it contains android, else
\* web; the device rule of the link and the destination of the redirect both
\* follow that one classification.
DeviceClassifiedOnce ==
  resp.op = "redirect" =>
    LET lower == {ToLowerCase(resp.req.ua[i]) : i \in 1..Len(resp.req.ua)}
        device == IF lower \cap {"iphone", "ipad", "ipod"} # {} THEN "ios"
                  ELSE IF "android" \in lower THEN "android"
                  ELSE "web"
        devices == resp.data.targeting_rules.devices
    IN IF devices # {} /\ device \notin devices
         THEN resp.status = 404
         ELSE /\ resp.status = 302
              /\ resp.location.url =
                   CASE device = "ios" -> <<resp.data.ios_app_store_url>>
                     [] device = "android" -> <<resp.data.android_app_store_url>>
                     [] device = "web" -> <<resp.data.web_fallback_url>>

\* a request naming both Android and iPhone passed the rule devices = ios and
\* was sent to the App Store
BothPlatformsNamed ==
  /\ resp.op = "redirect"
  /\ resp.status = 302
  /\ \E i, j \in 1..Len(resp.req.ua) :
       resp.req.ua[i] = "Android" /\ resp.req.ua[j] = "iPhone"
  /\ resp.data.targeting_rules.devices = {"ios"}
  /\ resp.location.url = <<"https://appstore">>

\* C26: no two rows of the links table have the same short_code.
ShortCodesUnique ==
  \A i, j \in DOMAIN links :
    (i # j /\ links[i] # NoLink /\ links[j] # NoLink)
      => links[i].short_code # links[j].short_code

\* a create whose check found the code free lost the INSERT to a request that
\* took the same code in between
LostToConcurrentCreate ==
  /\ resp.op = "create"
  /\ resp.status = 500
  /\ resp.error = "unique violation"
  /\ \E r \in Rows : r.short_code = resp.short_code

\* C29: every cache entry expires 300 s after it was written and holds a row
\* that was active and unexpired when it was written; a resolver that answers
\* with a link answers with a store row that is active and unexpired now, or
\* with a cache entry written less than 300 s ago.
CacheWithinTtl ==
  [][/\ \A k \in DOMAIN cache' :
          cache'[k] # NoEntry =>
            /\ cache'[k].exp = cache'[k].at + 300
            /\ cache'[k].at <= now'
            /\ cache'[k].data.is_active
            /\ \/ cache'[k].data.expires_at = NoExpiry
               \/ cache'[k].data.expires_at > cache'[k].at
     /\ (resp'.op \in {"redirect", "resolve"} /\ resp'.link # 0) =>
          \/ \E i \in DOMAIN links :
               /\ links[i] = resp'.data
               /\ links[i].is_active
               /\ links[i].expires_at = NoExpiry \/ links[i].expires_at > now
          \/ \E k \in DOMAIN cache :
               /\ cache[k] # NoEntry
               /\ cache[k].data = resp'.data
               /\ now - cache[k].at < 300]_vars

\* a resolver answered from a cache entry written earlier with a row the
\* store has switched off since
ServedFromCache ==
  /\ resp.op \in {"redirect", "resolve"}
  /\ resp.link # 0
  /\ \A i \in DOMAIN links : links[i] # resp.data
  /\ \E k \in DOMAIN cache :
       cache[k] # NoEntry /\ cache[k].data = resp.data /\ now > cache[k].at

\* C31: for every redirect and every SDK-resolve request the response is
\* produced before the click recorder issues its first store write: the step
\* that answers only schedules the recording and writes no click or
\* fingerprint row, and a click row is written by a later step for a
\* recording that was scheduled, and so answered, before
ResponseBeforeRecorder ==
  [][/\ Len(recorder') > Len(recorder)
          => /\ Len(recorder') = Len(recorder) + 1
             /\ resp'.op \in {"redirect", "resolve"}
             /\ resp'.status \in {200, 302}
             /\ recorder'[Len(recorder')].state = "scheduled"
             /\ clicks' = clicks
             /\ fingerprints' = fingerprints
     /\ \A c \in clicks' \ clicks :
          /\ c.id \in 1..Len(recorder)
          /\ recorder[c.id].state = "scheduled"
          /\ resp' = NoResp
     /\ \A f \in fingerprints' \ fingerprints :
          /\ f.click_id \in 1..Len(recorder)
          /\ resp' = NoResp]_vars

\* a click row written for an SDK resolve that was answered before
ClickWrittenAfterResponse ==
  \E n \in 1..Len(recorder) :
    /\ recorder[n].op = "resolve"
    /\ recorder[n].sent.kind = "json"
    /\ recorder[n].state = "clicked"
    /\ \E c \in clicks : c.id = n

\* C32: within one click recording the click row is inserted before the
\* fingerprint row, the event is published after both inserts and carries the
\* id of the inserted click, the webhook dispatch starts only after the
\* publish, and no later step happens once an earlier one has failed
RecorderStepsInOrder ==
  [][/\ \A f \in fingerprints' \ fingerprints :
          \E c \in clicks : c.id = f.click_id
     /\ \A e \in published' \ published :
          /\ \E c \in clicks : c.id = e.eventId /\ c.link_id = e.linkId
          /\ \E f \in fingerprints' : f.click_id = e.eventId
     /\ \A t \in triggered' \ triggered :
          t.event = "click_event"
            => /\ \E e \in published : e.eventId = t.event_id
               /\ t.data.id = t.event_id
     /\ \A n \in 1..Len(recorder) :
          recorder[n].state = "failed"
            => /\ recorder'[n] = recorder[n]
               /\ \A c \in clicks' \ clicks : c.id # n
               /\ \A f \in fingerprints' \ fingerprints : f.click_id # n
               /\ \A e \in published' \ published : e.eventId # n
               /\ \A t \in triggered' \ triggered : t.event_id # n]_vars

\* a recording that went through all its steps, and one that stopped after
\* its click insert
RecorderRanToDispatch ==
  /\ \E t \in triggered :
       /\ t.event = "click_event"
       /\ \E e \in published : e.eventId = t.event_id
       /\ \E f \in fingerprints : f.click_id = t.event_id
       /\ \E c \in clicks : c.id = t.event_id

\* C33: a failure in a step of the click recorder (click insert, fingerprint
\* insert, bus publish, webhook lookup) never changes the response that was
\* chosen and never escapes: the step that fails produces no response, leaves
\* what was answered and every other recording as they were, and ends its
\* recording for good
RecorderFailureContained ==
  [][\A n \in 1..Len(recorder) :
       LET before == recorder[n].state
           after == recorder'[n].state
           clickFailed == /\ before = "scheduled" /\ after # "scheduled"
                          /\ ~\E c \in clicks' : c.id = n
           printFailed == /\ before = "clicked" /\ after # "clicked"
                          /\ ~\E f \in fingerprints' : f.click_id = n
           publishFailed == /\ before = "clicked" /\ after # "clicked"
                            /\ FirstThrower # 0
           lookupFailed == /\ before = "published" /\ after # "published"
                           /\ ActiveWebhooksOf(recorder[n].user_id) # {}
                           /\ triggered' = triggered
       IN /\ clickFailed \/ printFailed \/ publishFailed \/ lookupFailed
            => /\ resp' = NoResp
               /\ after = IF lookupFailed THEN "done" ELSE "failed"
               /\ recorder'[n].sent = recorder[n].sent
               /\ Len(recorder') = Len(recorder)
               /\ \A m \in 1..Len(recorder) : m # n => recorder'[m] = recorder[m]
               /\ triggered' = triggered
               /\ links' = links
          /\ before \in {"failed", "done"} => recorder'[n] = recorder[n]]_vars

\* a recording whose fingerprint insert failed after the response
RecorderFailedAfterResponse ==
  \E n \in 1..Len(recorder) :
    /\ recorder[n].state = "failed"
    /\ recorder[n].sent.kind \in {"redirect", "interstitial", "json"}
    /\ \E c \in clicks : c.id = n
    /\ ~\E f \in fingerprints : f.click_id = n

\* C35: the redirect URL and the reason code on the published click event, and
\* on the payload of the click webhook, are the URL the resolver sent the
\* client to, query parameters included, and the reason of the branch that
\* chose it
EventCarriesSentUrl ==
  /\ \A e \in published :
       /\ e.eventId \in 1..Len(recorder)
       /\ e.redirectUrl = recorder[e.eventId].sent.location
       /\ e.redirectReason = recorder[e.eventId].reason
  /\ \A t \in triggered :
       t.event = "click_event"
         => /\ {"redirectUrl", "redirectReason"} \subseteq DOMAIN t.data
            /\ t.data.redirectUrl = recorder[t.event_id].sent.location
            /\ t.data.redirectReason = recorder[t.event_id].reason

\* C40: a subscriber callback that throws during the bus publish of a click
\* does not prevent the webhook dispatch step of that click: a recording whose
\* event was published goes on to its webhook step
PublishedClickReachesDispatch ==
  \A n \in 1..Len(recorder) :
    (\E e \in published : e.eventId = n)
      => recorder[n].state \in {"published", "done"}

\* C37: a click or conversion event is delivered only to webhooks that are
\* active, owned by the owner of the event's link and subscribed to that event
\* type; when the link has no owner, no webhook receives the event
DeliveredOnlyToOwnerSubscribers ==
  [][\A t \in triggered' \ triggered :
       LET owner == IF t.event = "click_event"
                      THEN recorder[t.event_id].user_id
                      ELSE links[t.data.linkId].user_id
       IN /\ owner # NoUser
          /\ \A w \in t.started :
               /\ webhooks[w].is_active
               /\ webhooks[w].user_id = owner
               /\ t.event \in webhooks[w].events]_vars

\* a click and a conversion that each went to one of the two webhooks only,
\* both of them active
EventKeptFromOtherWebhook ==
  /\ \A w \in DOMAIN webhooks : webhooks[w].is_active
  /\ \E t \in triggered : t.event = "click_event" /\ t.started = {"w1"}
  /\ \E t \in triggered : t.event = "conversion_event" /\ t.started = {"w2"}

\* C38: all attempts of one delivery, and the deliveries to all webhooks that
\* one event triggers, carry the same event_id, timestamp and data, so the
\* body and the signature of a retried request are those of the first attempt
RetriesRepeatFirstRequest ==
  [][/\ \A w \in DOMAIN delivery :
          delivery[w].attempt >= 1 /\ delivery'[w].attempt = delivery[w].attempt + 1
            => /\ delivery'[w].payload = delivery[w].payload
               /\ delivery'[w].body = delivery[w].body
               /\ delivery'[w].headers["X-LinkForty-Signature"]
                    = delivery[w].headers["X-LinkForty-Signature"]
               /\ delivery'[w].headers["X-LinkForty-Event-ID"]
                    = delivery[w].headers["X-LinkForty-Event-ID"]
     /\ \A w, v \in DOMAIN delivery :
          delivery'[w].mode = "trigger" /\ delivery'[v].mode = "trigger"
            => /\ delivery'[w].payload.event_id = delivery'[v].payload.event_id
               /\ delivery'[w].payload.timestamp = delivery'[v].payload.timestamp
               /\ delivery'[w].payload.data = delivery'[v].payload.data
               /\ delivery'[w].body = delivery'[v].body]_vars

\* one event on its way to two webhooks, the first of them in a retry
RetriedFanout ==
  /\ delivery["w1"].mode = "trigger"
  /\ delivery["w1"].attempt >= 2
  /\ delivery["w1"].pc = "fetch"
  /\ delivery["w2"].mode = "trigger"
  /\ delivery["w2"].posts >= 1

\* C34: when the cache is absent or a cache read or write fails, a resolve
\* request is answered and recorded as on a miss with a working cache, from
\* the row the store query returns: 404 and no recording when there is none,
\* that row's answer and one recording for it otherwise, and never an error
\* response because of the cache
CacheFailureIsAMiss ==
  [][resp'.op \in {"redirect", "resolve"}
       /\ resp'.lookup \in {"absent", "get failed", "set failed", "store"}
       => LET rows == StoreLookup(resp'.code, resp'.slug)
          IN /\ resp'.status \in {200, 302, 404}
             /\ IF rows = {}
                  THEN /\ resp'.status = 404
                       /\ resp'.lookup # "set failed"
                       /\ recorder' = recorder
                  ELSE /\ resp'.data \in rows
                       /\ resp'.status = IF resp'.op = "redirect" THEN 302 ELSE 200
                       /\ resp'.op = "redirect"
                            => resp'.location =
                                 FinalUrl(SelectDestination(resp'.data,
                                            detectDevice(resp'.req.ua)), resp'.data)
                       /\ Len(recorder') = Len(recorder) + 1
                       /\ recorder'[Len(recorder')].link_id = resp'.data.id
                       /\ recorder'[Len(recorder')].state = "scheduled"]_vars

\* a request answered from the store because the cache read threw, while the
\* cache holds an entry for the link that has been switched off since
StaleEntryBypassed ==
  /\ resp.op \in {"redirect", "resolve"}
  /\ resp.lookup = "get failed"
  /\ resp.status = 404
  /\ CacheGet(CacheKey(resp.code, resp.slug)) # NoLink

\* C36: a link create that meets a short-code collision retries with a fresh
\* code and answers with an error only after its retries are exhausted, and
\* the code a successful create returns is the code stored on the new link
CreateFailsOnlyWhenExhausted ==
  /\ resp.op = "create" /\ resp.status = 500 => resp.error = "no unique code"
  /\ resp.op = "create" /\ resp.status = 200
       => /\ links[resp.link] # NoLink
          /\ links[resp.link].short_code = resp.short_code

====
